---- MODULE Spec2Model ----
(***************************************************************************)
(* Model of the joinkit hash-join operators (src/src/hash_join.rs).        *)
(*                                                                         *)
(* The two inputs are finite sequences of (key, value) pairs.  A           *)
(* constructor drains the right input into a HashMap (HashSet for          *)
(* left-excl); every call of an operator's next() is one action.           *)
(* std::collections::HashMap iterates in an unspecified order: the order   *)
(* in which into_iter() yields the entries is a parameter (ord) chosen     *)
(* nondeterministically among all orders of the map's keys.                *)
(***************************************************************************)
EXTENDS Integers, Sequences, FiniteSets, TLC

\* ---------------------------------------------------------------- bounds
MaxLeft == 3
MaxRight == 3
MaxFields == 3
MaxRecFields == 2
MaxPlan == 2
MaxFile == 2

\* The keys (K) the inputs are drawn from.
Keys == {1, 2, 3}

\* The payloads.  LV and RV are unconstrained type parameters (RV: Clone): the
\* operators move and clone payloads and never inspect them.  The payload of an
\* item is the record it stands for, named by its side and its position in the
\* input, so that every emitted payload can be traced to the item it came from.
LRec(i) == <<"l", i>>
RRec(j) == <<"r", j>>

VARIABLES
    L,          \* the left input as given by the caller: Seq(<<k, lv>>)
    R,          \* the right input as given by the caller: Seq(<<k, rv>>)
    op,         \* which operator was constructed ("none" before construction)
    left,       \* the operator's left iterator
    right,      \* the caller's right iterator (moved into new())
    map,        \* HashMap<K, Vec<RV>> or HashMap<K, (Vec<RV>, bool)>
    set,        \* HashSet<K> (left-excl)
    excl_iter,  \* Option<IntoIter<K, (Vec<RV>, bool)>>
    out,        \* the elements next() has returned so far, in order
    status,     \* "new": no next() yet; "some"/"none": what the last next() returned
    cmp,        \* the merge operators' comparator F (FnMut: it has state)
    fused,      \* the merge operators' fused: Option<Ordering>
    f,          \* fields_to_idx: the argument f: Vec<&str>
    res,        \* fields_to_idx: how the call ended ("idle" before the call)
    record,     \* extract_key: the argument record: &str
    field_sep,  \* extract_key: the argument field_sep: &str
    key_idx,    \* extract_key: the argument key_idx: &[(usize, isize, DataType)]
    keys,       \* extract_key: how the call ended
    args,       \* hjoin / mjoin: the command line and the two input files
    stdout      \* hjoin / mjoin: what main() has written to out_stream

hashvars == <<map, set, excl_iter>>
mergevars == <<cmp, fused>>
utilvars == <<f, res, record, field_sep, key_idx, keys, args, stdout>>

vars == <<L, R, op, left, right, out, status, hashvars, mergevars, utilvars>>

\* ------------------------------------------------------- Option, EitherOrBoth
None == <<>>
Some(x) == <<x>>
IsSome(o) == o # <<>>
Unwrap(o) == o[1]

Left(l) == [tag |-> "Left", l |-> l]
Right(r) == [tag |-> "Right", r |-> r]
Both(l, r) == [tag |-> "Both", l |-> l, r |-> r]

\* ------------------------------------------------------------- iterators
\* An iterator over a finite sequence; calls counts the next() calls it has
\* received since the operator's own next() (or new()) was entered.
Iter(items) == [items |-> items, calls |-> 0]

IterNext(it) ==
    IF it.items = <<>>
    THEN [it |-> [items |-> <<>>, calls |-> it.calls + 1], item |-> None]
    ELSE [it |-> [items |-> Tail(it.items), calls |-> it.calls + 1],
          item |-> Some(Head(it.items))]

Enter(it) == [it EXCEPT !.calls = 0]

\* ------------------------------------------------------------ the HashMap
EmptyMap == [k \in {} |-> <<>>]

MapGet(m, k) == IF k \in DOMAIN m THEN Some(m[k]) ELSE None

MapPut(m, k, v) == [x \in DOMAIN m \cup {k} |-> IF x = k THEN v ELSE m[x]]

\* map.entry(k).or_insert(Vec::with_capacity(1)).push(v), for every item of right
RECURSIVE BuildMap(_, _)
BuildMap(it, m) ==
    LET n == IterNext(it) IN
    IF ~IsSome(n.item) THEN [right |-> n.it, map |-> m]
    ELSE LET k == Unwrap(n.item)[1]
             v == Unwrap(n.item)[2]
             values == IF k \in DOMAIN m THEN m[k] ELSE <<>>
         IN BuildMap(n.it, MapPut(m, k, Append(values, v)))

\* map.entry(k).or_insert((Vec::with_capacity(1), false)).0.push(v)
\* The build loop storing only the last value of each key.
RECURSIVE BuildTaggedMap_last(_, _)
BuildTaggedMap_last(it, m) ==
    LET n == IterNext(it) IN
    IF ~IsSome(n.item) THEN [right |-> n.it, map |-> m]
    ELSE LET k == Unwrap(n.item)[1]
             v == Unwrap(n.item)[2]
             values == IF k \in DOMAIN m THEN m[k] ELSE <<<<>>, FALSE>>
         IN BuildTaggedMap_last(n.it, MapPut(m, k, <<<<v>>, values[2]>>))

RECURSIVE BuildTaggedMap(_, _)
BuildTaggedMap(it, m) ==
    LET n == IterNext(it) IN
    IF ~IsSome(n.item) THEN [right |-> n.it, map |-> m]
    ELSE LET k == Unwrap(n.item)[1]
             v == Unwrap(n.item)[2]
             values == IF k \in DOMAIN m THEN m[k] ELSE <<<<>>, FALSE>>
         IN BuildTaggedMap(n.it, MapPut(m, k, <<Append(values[1], v), values[2]>>))

\* set.insert(k), for every item of right
RECURSIVE BuildSet(_, _)
BuildSet(it, s) ==
    LET n == IterNext(it) IN
    IF ~IsSome(n.item) THEN [right |-> n.it, set |-> s]
    ELSE BuildSet(n.it, s \cup {Unwrap(n.item)[1]})

\* All orders in which a HashMap with key set S may yield its entries.
Orders(S) == {o \in [1..Cardinality(S) -> S] : \A i, j \in 1..Cardinality(S) : o[i] = o[j] => i = j}

\* map.into_iter(), yielding the entries in the order ord
IntoIter(m, ord) == Iter([i \in 1..Len(ord) |-> <<ord[i], m[ord[i]]>>])

\* ------------------------------------------------------------ constructors
\* new(left, right): l and r are the iterators left.into_iter(), right.into_iter();
\* the result also carries the right iterator as the for loop leaves it.
HashJoinInner_new(l, r) ==
    LET b == BuildMap(r, EmptyMap) IN
    [left |-> l, right |-> b.right, map |-> b.map]

HashJoinLeftExcl_new(l, r) ==
    LET b == BuildSet(r, {}) IN
    [left |-> l, right |-> b.right, set |-> b.set]

HashJoinLeftOuter_new(l, r) ==
    LET b == BuildMap(r, EmptyMap) IN
    [left |-> l, right |-> b.right, map |-> b.map]

\* Mutant: the constructor stores the iterators and does not read the right one.
HashJoinRightExcl_new_lazy(l, r) ==
    [left |-> l, right |-> r, map |-> EmptyMap, excl_iter |-> None]

HashJoinRightExcl_new(l, r) ==
    LET b == BuildTaggedMap(r, EmptyMap) IN
    [left |-> l, right |-> b.right, map |-> b.map, excl_iter |-> None]

HashJoinRightOuter_new(l, r) ==
    LET b == BuildTaggedMap(r, EmptyMap) IN
    [left |-> l, right |-> b.right, map |-> b.map, excl_iter |-> None]

HashJoinFullOuter_new(l, r) ==
    LET b == BuildTaggedMap(r, EmptyMap) IN
    [left |-> l, right |-> b.right, map |-> b.map, excl_iter |-> None]

\* ------------------------------------------------------------------ next()
\* Each next takes the operator object and returns it as the call leaves it,
\* with the value returned (ret).

\* Mutant: an unmatched left item ends the iteration (return None for continue).
HashJoinInner_next_stop(self) ==
    LET n == IterNext(self.left)
        self1 == [self EXCEPT !.left = n.it]
        g == IF IsSome(n.item) THEN MapGet(self1.map, Unwrap(n.item)[1]) ELSE None
    IN  IF IsSome(g)
        THEN [self |-> self1, ret |-> Some(<<Unwrap(n.item)[2], Unwrap(g)>>)]
        ELSE [self |-> self1, ret |-> None]

\* Mutant: the stored list is moved out of the map (mem::take) instead of cloned.
RECURSIVE HashJoinInner_next_take(_)
HashJoinInner_next_take(self) ==
    LET n == IterNext(self.left)
        self1 == [self EXCEPT !.left = n.it]
    IN  IF IsSome(n.item)
        THEN LET lk == Unwrap(n.item)[1]
                 lv == Unwrap(n.item)[2]
                 g == MapGet(self1.map, lk)
             IN  IF IsSome(g)
                 THEN [self |-> [self1 EXCEPT !.map = MapPut(self1.map, lk, <<>>)],
                       ret |-> Some(<<lv, Unwrap(g)>>)]
                 ELSE HashJoinInner_next_take(self1)
        ELSE [self |-> self1, ret |-> None]

RECURSIVE HashJoinInner_next(_)
HashJoinInner_next(self) ==
    LET n == IterNext(self.left)
        self1 == [self EXCEPT !.left = n.it]
    IN  IF IsSome(n.item)
        THEN LET lk == Unwrap(n.item)[1]
                 lv == Unwrap(n.item)[2]
                 g == MapGet(self1.map, lk)
             IN  IF IsSome(g)
                 THEN [self |-> self1, ret |-> Some(<<lv, Unwrap(g)>>)]
                 ELSE HashJoinInner_next(self1)
        ELSE [self |-> self1, ret |-> None]

\* Mutant: the membership test is inverted.
RECURSIVE HashJoinLeftExcl_next_inv(_)
HashJoinLeftExcl_next_inv(self) ==
    LET n == IterNext(self.left)
        self1 == [self EXCEPT !.left = n.it]
    IN  IF IsSome(n.item)
        THEN IF Unwrap(n.item)[1] \in self1.set
             THEN [self |-> self1, ret |-> Some(Unwrap(n.item)[2])]
             ELSE HashJoinLeftExcl_next_inv(self1)
        ELSE [self |-> self1, ret |-> None]

RECURSIVE HashJoinLeftExcl_next(_)
HashJoinLeftExcl_next(self) ==
    LET n == IterNext(self.left)
        self1 == [self EXCEPT !.left = n.it]
    IN  IF IsSome(n.item)
        THEN LET lk == Unwrap(n.item)[1]
                 lv == Unwrap(n.item)[2]
             IN  IF lk \in self1.set
                 THEN HashJoinLeftExcl_next(self1)
                 ELSE [self |-> self1, ret |-> Some(lv)]
        ELSE [self |-> self1, ret |-> None]

\* r.hash_join_left_excl(l) driven to exhaustion: the elements it returns.
RECURSIVE CollectLeftExcl(_, _)
CollectLeftExcl(self, acc) ==
    LET r == HashJoinLeftExcl_next(self) IN
    IF IsSome(r.ret) THEN CollectLeftExcl(r.self, Append(acc, Unwrap(r.ret))) ELSE acc

hash_join_left_excl(l, r) ==
    CollectLeftExcl(HashJoinLeftExcl_new(Iter(l), Iter(r)), <<>>)

\* Mutant: an unmatched left item is skipped (continue), as in the inner join.
RECURSIVE HashJoinLeftOuter_next_skip(_)
HashJoinLeftOuter_next_skip(self) ==
    LET n == IterNext(self.left)
        self1 == [self EXCEPT !.left = n.it]
    IN  IF IsSome(n.item)
        THEN LET g == MapGet(self1.map, Unwrap(n.item)[1])
             IN  IF IsSome(g)
                 THEN [self |-> self1, ret |-> Some(Both(Unwrap(n.item)[2], Unwrap(g)))]
                 ELSE HashJoinLeftOuter_next_skip(self1)
        ELSE [self |-> self1, ret |-> None]

HashJoinLeftOuter_next(self) ==
    LET n == IterNext(self.left)
        self1 == [self EXCEPT !.left = n.it]
    IN  IF IsSome(n.item)
        THEN LET lk == Unwrap(n.item)[1]
                 lv == Unwrap(n.item)[2]
                 g == MapGet(self1.map, lk)
             IN  IF IsSome(g)
                 THEN [self |-> self1, ret |-> Some(Both(lv, Unwrap(g)))]
                 ELSE [self |-> self1, ret |-> Some(Left(lv))]
        ELSE [self |-> self1, ret |-> None]

\* The same with the map copied into the iterator and left as it was.
set_excl_iter_copy(self, ord) ==
    [self EXCEPT !.excl_iter = Some(IntoIter(self.map, ord))]

\* mem::replace(&mut self.map, HashMap::new()); self.excl_iter = Some(map.into_iter())
set_excl_iter(self, ord) ==
    [self EXCEPT !.map = EmptyMap, !.excl_iter = Some(IntoIter(self.map, ord))]

\* Mutant: the matched flag is not set.
FlagMatched_noop(m, k) == m

\* The same with the flag of every entry set.
FlagMatched_all(m, k) == [x \in DOMAIN m |-> <<m[x][1], TRUE>>]

\* rt.1 = true through the reference map.get_mut(&lk) returned
FlagMatched(m, k) == [m EXCEPT ![k] = <<m[k][1], TRUE>>]

\* Mutant: the drain yields the matched entries (if matched for if !matched).
RECURSIVE HashJoinRightExcl_next_inv(_, _)
HashJoinRightExcl_next_inv(self, ord) ==
    IF ~IsSome(self.excl_iter)
    THEN LET n == IterNext(self.left)
             self1 == [self EXCEPT !.left = n.it]
         IN  IF IsSome(n.item)
             THEN LET lk == Unwrap(n.item)[1]
                  IN  IF IsSome(MapGet(self1.map, lk))
                      THEN HashJoinRightExcl_next_inv(
                               [self1 EXCEPT !.map = FlagMatched(self1.map, lk)], ord)
                      ELSE HashJoinRightExcl_next_inv(self1, ord)
             ELSE HashJoinRightExcl_next_inv(set_excl_iter(self1, ord), ord)
    ELSE LET n == IterNext(Unwrap(self.excl_iter))
             self1 == [self EXCEPT !.excl_iter = Some(n.it)]
         IN  IF IsSome(n.item)
             THEN IF Unwrap(n.item)[2][2]
                  THEN [self |-> self1, ret |-> Some(Unwrap(n.item)[2][1])]
                  ELSE HashJoinRightExcl_next_inv(self1, ord)
             ELSE [self |-> self1, ret |-> None]

\* HashJoinRightExcl::next that, at the end of the drain, takes excl_iter
\* back to None.
RECURSIVE HashJoinRightExcl_next_reset(_, _)
HashJoinRightExcl_next_reset(self, ord) ==
    IF ~IsSome(self.excl_iter)
    THEN LET n == IterNext(self.left)
             self1 == [self EXCEPT !.left = n.it]
         IN  IF IsSome(n.item)
             THEN LET lk == Unwrap(n.item)[1]
                  IN  IF IsSome(MapGet(self1.map, lk))
                      THEN HashJoinRightExcl_next_reset(
                               [self1 EXCEPT !.map = FlagMatched(self1.map, lk)], ord)
                      ELSE HashJoinRightExcl_next_reset(self1, ord)
             ELSE HashJoinRightExcl_next_reset(set_excl_iter(self1, ord), ord)
    ELSE LET n == IterNext(Unwrap(self.excl_iter))
             self1 == [self EXCEPT !.excl_iter = Some(n.it)]
         IN  IF IsSome(n.item)
             THEN IF ~Unwrap(n.item)[2][2]
                  THEN [self |-> self1, ret |-> Some(Unwrap(n.item)[2][1])]
                  ELSE HashJoinRightExcl_next_reset(self1, ord)
             ELSE [self |-> [self1 EXCEPT !.excl_iter = None], ret |-> None]

RECURSIVE HashJoinRightExcl_next(_, _)
HashJoinRightExcl_next(self, ord) ==
    IF ~IsSome(self.excl_iter)
    THEN LET n == IterNext(self.left)
             self1 == [self EXCEPT !.left = n.it]
         IN  IF IsSome(n.item)
             THEN LET lk == Unwrap(n.item)[1]
                  IN  IF IsSome(MapGet(self1.map, lk))
                      THEN HashJoinRightExcl_next(
                               [self1 EXCEPT !.map = FlagMatched(self1.map, lk)], ord)
                      ELSE HashJoinRightExcl_next(self1, ord)
             ELSE HashJoinRightExcl_next(set_excl_iter(self1, ord), ord)
    ELSE LET n == IterNext(Unwrap(self.excl_iter))
             self1 == [self EXCEPT !.excl_iter = Some(n.it)]
         IN  IF IsSome(n.item)
             THEN LET rvv == Unwrap(n.item)[2][1]
                      matched == Unwrap(n.item)[2][2]
                  IN  IF ~matched
                      THEN [self |-> self1, ret |-> Some(rvv)]
                      ELSE HashJoinRightExcl_next(self1, ord)
             ELSE [self |-> self1, ret |-> None]

\* Mutant: a match returns Both without flagging the entry as matched.
RECURSIVE HashJoinRightOuter_next_noflag(_, _)
HashJoinRightOuter_next_noflag(self, ord) ==
    IF ~IsSome(self.excl_iter)
    THEN LET n == IterNext(self.left)
             self1 == [self EXCEPT !.left = n.it]
         IN  IF IsSome(n.item)
             THEN LET g == MapGet(self1.map, Unwrap(n.item)[1])
                  IN  IF IsSome(g)
                      THEN [self |-> self1,
                            ret |-> Some(Both(Unwrap(n.item)[2], Unwrap(g)[1]))]
                      ELSE HashJoinRightOuter_next_noflag(self1, ord)
             ELSE HashJoinRightOuter_next_noflag(set_excl_iter(self1, ord), ord)
    ELSE LET n == IterNext(Unwrap(self.excl_iter))
             self1 == [self EXCEPT !.excl_iter = Some(n.it)]
         IN  IF IsSome(n.item)
             THEN IF ~Unwrap(n.item)[2][2]
                  THEN [self |-> self1, ret |-> Some(Right(Unwrap(n.item)[2][1]))]
                  ELSE HashJoinRightOuter_next_noflag(self1, ord)
             ELSE [self |-> self1, ret |-> None]

\* Mutant: an unmatched left item is returned as Left, as in the full outer join.
RECURSIVE HashJoinRightOuter_next_left(_, _)
HashJoinRightOuter_next_left(self, ord) ==
    IF ~IsSome(self.excl_iter)
    THEN LET n == IterNext(self.left)
             self1 == [self EXCEPT !.left = n.it]
         IN  IF IsSome(n.item)
             THEN LET lk == Unwrap(n.item)[1]
                      lv == Unwrap(n.item)[2]
                  IN  IF IsSome(MapGet(self1.map, lk))
                      THEN LET m1 == FlagMatched(self1.map, lk)
                           IN  [self |-> [self1 EXCEPT !.map = m1],
                                ret |-> Some(Both(lv, m1[lk][1]))]
                      ELSE [self |-> self1, ret |-> Some(Left(lv))]
             ELSE HashJoinRightOuter_next_left(set_excl_iter(self1, ord), ord)
    ELSE LET n == IterNext(Unwrap(self.excl_iter))
             self1 == [self EXCEPT !.excl_iter = Some(n.it)]
         IN  IF IsSome(n.item)
             THEN IF ~Unwrap(n.item)[2][2]
                  THEN [self |-> self1, ret |-> Some(Right(Unwrap(n.item)[2][1]))]
                  ELSE HashJoinRightOuter_next_left(self1, ord)
             ELSE [self |-> self1, ret |-> None]

RECURSIVE HashJoinRightOuter_next(_, _)
HashJoinRightOuter_next(self, ord) ==
    IF ~IsSome(self.excl_iter)
    THEN LET n == IterNext(self.left)
             self1 == [self EXCEPT !.left = n.it]
         IN  IF IsSome(n.item)
             THEN LET lk == Unwrap(n.item)[1]
                      lv == Unwrap(n.item)[2]
                  IN  IF IsSome(MapGet(self1.map, lk))
                      THEN LET m1 == FlagMatched(self1.map, lk)
                           IN  [self |-> [self1 EXCEPT !.map = m1],
                                ret |-> Some(Both(lv, m1[lk][1]))]
                      ELSE HashJoinRightOuter_next(self1, ord)
             ELSE HashJoinRightOuter_next(set_excl_iter(self1, ord), ord)
    ELSE LET n == IterNext(Unwrap(self.excl_iter))
             self1 == [self EXCEPT !.excl_iter = Some(n.it)]
         IN  IF IsSome(n.item)
             THEN LET rvv == Unwrap(n.item)[2][1]
                      matched == Unwrap(n.item)[2][2]
                  IN  IF ~matched
                      THEN [self |-> self1, ret |-> Some(Right(rvv))]
                      ELSE HashJoinRightOuter_next(self1, ord)
             ELSE [self |-> self1, ret |-> None]

\* Mutant: the left iterator is read from its back end (next_back for next).
RECURSIVE HashJoinFullOuter_next_back(_, _)
HashJoinFullOuter_next_back(self, ord) ==
    IF ~IsSome(self.excl_iter)
    THEN LET items == self.left.items
             self1 == [self EXCEPT !.left = [items |-> IF items = <<>> THEN <<>>
                                                       ELSE SubSeq(items, 1, Len(items) - 1),
                                             calls |-> self.left.calls + 1]]
         IN  IF items # <<>>
             THEN LET lk == items[Len(items)][1]
                      lv == items[Len(items)][2]
                  IN  IF IsSome(MapGet(self1.map, lk))
                      THEN LET m1 == FlagMatched(self1.map, lk)
                           IN  [self |-> [self1 EXCEPT !.map = m1],
                                ret |-> Some(Both(lv, m1[lk][1]))]
                      ELSE [self |-> self1, ret |-> Some(Left(lv))]
             ELSE HashJoinFullOuter_next_back(set_excl_iter(self1, ord), ord)
    ELSE LET n == IterNext(Unwrap(self.excl_iter))
             self1 == [self EXCEPT !.excl_iter = Some(n.it)]
         IN  IF IsSome(n.item)
             THEN IF ~Unwrap(n.item)[2][2]
                  THEN [self |-> self1, ret |-> Some(Right(Unwrap(n.item)[2][1]))]
                  ELSE HashJoinFullOuter_next_back(self1, ord)
             ELSE [self |-> self1, ret |-> None]

RECURSIVE HashJoinFullOuter_next(_, _)
HashJoinFullOuter_next(self, ord) ==
    IF ~IsSome(self.excl_iter)
    THEN LET n == IterNext(self.left)
             self1 == [self EXCEPT !.left = n.it]
         IN  IF IsSome(n.item)
             THEN LET lk == Unwrap(n.item)[1]
                      lv == Unwrap(n.item)[2]
                  IN  IF IsSome(MapGet(self1.map, lk))
                      THEN LET m1 == FlagMatched(self1.map, lk)
                           IN  [self |-> [self1 EXCEPT !.map = m1],
                                ret |-> Some(Both(lv, m1[lk][1]))]
                      ELSE [self |-> self1, ret |-> Some(Left(lv))]
             ELSE HashJoinFullOuter_next(set_excl_iter(self1, ord), ord)
    ELSE LET n == IterNext(Unwrap(self.excl_iter))
             self1 == [self EXCEPT !.excl_iter = Some(n.it)]
         IN  IF IsSome(n.item)
             THEN LET rvv == Unwrap(n.item)[2][1]
                      matched == Unwrap(n.item)[2][2]
                  IN  IF ~matched
                      THEN [self |-> self1, ret |-> Some(Right(rvv))]
                      ELSE HashJoinFullOuter_next(self1, ord)
             ELSE [self |-> self1, ret |-> None]

\* ------------------------------------------------------------- the inputs
SeqsUpTo(S, n) == UNION {[1..m -> S] : m \in 0..n}

LeftInputs == {[i \in 1..Len(ks) |-> <<ks[i], LRec(i)>>] : ks \in SeqsUpTo(Keys, MaxLeft)}
RightInputs == {[j \in 1..Len(ks) |-> <<ks[j], RRec(j)>>] : ks \in SeqsUpTo(Keys, MaxRight)}

Init ==
    /\ L \in LeftInputs
    /\ R \in RightInputs
    /\ op = "none"
    /\ left = Iter(L)
    /\ right = Iter(R)
    /\ map = EmptyMap
    /\ set = {}
    /\ excl_iter = None
    /\ out = <<>>
    /\ status = "new"
    /\ cmp = <<>>
    /\ fused = <<>>
    /\ f = <<>>
    /\ res = [kind |-> "Idle"]
    /\ record = <<>>
    /\ field_sep = <<>>
    /\ key_idx = <<>>
    /\ keys = [kind |-> "Idle"]
    /\ args = [kind |-> "Idle"]
    /\ stdout = [kind |-> "Idle"]

\* ---------------------------------------------------------------- actions
\* l.hash_join_*(r): the constructor runs to completion.
Construct(name, s) ==
    /\ op = "none"
    /\ op' = name
    /\ left' = s.left
    /\ right' = s.right
    /\ UNCHANGED <<L, R, out, status, mergevars, utilvars>>

NewInner ==
    LET s == HashJoinInner_new(left, right) IN
    Construct("inner", s) /\ map' = s.map /\ UNCHANGED <<set, excl_iter>>

NewLeftExcl ==
    LET s == HashJoinLeftExcl_new(left, right) IN
    Construct("left_excl", s) /\ set' = s.set /\ UNCHANGED <<map, excl_iter>>

NewLeftOuter ==
    LET s == HashJoinLeftOuter_new(left, right) IN
    Construct("left_outer", s) /\ map' = s.map /\ UNCHANGED <<set, excl_iter>>

NewRightExcl ==
    LET s == HashJoinRightExcl_new(left, right) IN
    Construct("right_excl", s) /\ map' = s.map /\ excl_iter' = s.excl_iter
                               /\ UNCHANGED set

NewRightOuter ==
    LET s == HashJoinRightOuter_new(left, right) IN
    Construct("right_outer", s) /\ map' = s.map /\ excl_iter' = s.excl_iter
                                /\ UNCHANGED set

NewFullOuter ==
    LET s == HashJoinFullOuter_new(left, right) IN
    Construct("full_outer", s) /\ map' = s.map /\ excl_iter' = s.excl_iter
                               /\ UNCHANGED set

\* The caller receives ret.
Return(ret) ==
    /\ status' = IF IsSome(ret) THEN "some" ELSE "none"
    /\ out' = IF IsSome(ret) THEN Append(out, Unwrap(ret)) ELSE out

EnterOpt(o) == IF IsSome(o) THEN Some(Enter(Unwrap(o))) ELSE None

NextInner ==
    /\ op = "inner"
    /\ LET r == HashJoinInner_next([left |-> Enter(left), map |-> map]) IN
       /\ left' = r.self.left
       /\ map' = r.self.map
       /\ Return(r.ret)
    /\ UNCHANGED <<L, R, op, right, set, excl_iter, mergevars, utilvars>>

NextLeftExcl ==
    /\ op = "left_excl"
    /\ LET r == HashJoinLeftExcl_next([left |-> Enter(left), set |-> set]) IN
       /\ left' = r.self.left
       /\ set' = r.self.set
       /\ Return(r.ret)
    /\ UNCHANGED <<L, R, op, right, map, excl_iter, mergevars, utilvars>>

NextLeftOuter ==
    /\ op = "left_outer"
    /\ LET r == HashJoinLeftOuter_next([left |-> Enter(left), map |-> map]) IN
       /\ left' = r.self.left
       /\ map' = r.self.map
       /\ Return(r.ret)
    /\ UNCHANGED <<L, R, op, right, set, excl_iter, mergevars, utilvars>>

Tagged(r) ==
    /\ left' = r.self.left
    /\ map' = r.self.map
    /\ excl_iter' = r.self.excl_iter
    /\ Return(r.ret)
    /\ UNCHANGED <<L, R, op, right, set, mergevars, utilvars>>

NextRightExcl ==
    /\ op = "right_excl"
    /\ \E ord \in Orders(DOMAIN map) :
         Tagged(HashJoinRightExcl_next(
                    [left |-> Enter(left), map |-> map, excl_iter |-> EnterOpt(excl_iter)], ord))

NextRightOuter ==
    /\ op = "right_outer"
    /\ \E ord \in Orders(DOMAIN map) :
         Tagged(HashJoinRightOuter_next(
                    [left |-> Enter(left), map |-> map, excl_iter |-> EnterOpt(excl_iter)], ord))

NextFullOuter ==
    /\ op = "full_outer"
    /\ \E ord \in Orders(DOMAIN map) :
         Tagged(HashJoinFullOuter_next(
                    [left |-> Enter(left), map |-> map, excl_iter |-> EnterOpt(excl_iter)], ord))

Next ==
    \/ NewInner \/ NewLeftExcl \/ NewLeftOuter
    \/ NewRightExcl \/ NewRightOuter \/ NewFullOuter
    \/ NextInner \/ NextLeftExcl \/ NextLeftOuter
    \/ NextRightExcl \/ NextRightOuter \/ NextFullOuter

Spec == Init /\ [][Next]_vars

\* ================================================================ merge joins
\* ------------------------------------------------------------------ Peekable
\* left.into_iter().peekable(): the iterator and the item peek() has set aside,
\* an Option<Option<Item>>.
Peekable(it) == [iter |-> it, peeked |-> None]

Peek(p) ==
    IF IsSome(p.peeked)
    THEN [p |-> p, item |-> Unwrap(p.peeked)]
    ELSE LET n == IterNext(p.iter) IN
         [p |-> [iter |-> n.it, peeked |-> Some(n.item)], item |-> n.item]

PeekableNext(p) ==
    IF IsSome(p.peeked)
    THEN [p |-> [p EXCEPT !.peeked = None], item |-> Unwrap(p.peeked)]
    ELSE LET n == IterNext(p.iter) IN
         [p |-> [p EXCEPT !.iter = n.it], item |-> n.item]

EnterPeekable(p) == [p EXCEPT !.iter = Enter(@)]

\* The items a Peekable still holds.
Rest(p) ==
    (IF IsSome(p.peeked) /\ IsSome(Unwrap(p.peeked)) THEN <<Unwrap(Unwrap(p.peeked))>> ELSE <<>>)
        \o p.iter.items

\* ---------------------------------------------------------------- comparator
Ordering == {"Less", "Equal", "Greater"}

Ord_cmp(a, b) == IF a < b THEN "Less" ELSE IF a = b THEN "Equal" ELSE "Greater"

\* ------------------------------------------------------ the order of keys
\* VarData derives PartialOrd and Ord: the variants compare in the order of
\* their declaration (I, U, S), two values of one variant by the order of what
\* they hold: i64 and u64 numerically, String by its bytes.  A key is a
\* Vec<VarData>, which compares lexicographically.
Byte(c) ==
    CASE c = "+" -> 43 [] c = "," -> 44 [] c = "-" -> 45
      [] c = "0" -> 48 [] c = "1" -> 49 [] c = "2" -> 50 [] c = "3" -> 51
      [] c = "4" -> 52 [] c = "5" -> 53 [] c = "6" -> 54 [] c = "7" -> 55
      [] c = "8" -> 56 [] c = "9" -> 57 [] c = ";" -> 59
      [] c = "a" -> 97 [] c = "b" -> 98 [] c = "c" -> 99

Byte_cmp(c, d) == Ord_cmp(Byte(c), Byte(d))

RECURSIVE String_cmp(_, _)
String_cmp(a, b) ==
    IF a = <<>> THEN (IF b = <<>> THEN "Equal" ELSE "Less")
    ELSE IF b = <<>> THEN "Greater"
    ELSE LET o == Byte_cmp(Head(a), Head(b))
         IN  IF o # "Equal" THEN o ELSE String_cmp(Tail(a), Tail(b))

Discriminant(d) == CASE d[1] = "I" -> 0 [] d[1] = "U" -> 1 [] d[1] = "S" -> 2

VarData_cmp(a, b) ==
    IF Discriminant(a) # Discriminant(b)
    THEN Ord_cmp(Discriminant(a), Discriminant(b))
    ELSE IF a[1] = "S" THEN String_cmp(a[2], b[2]) ELSE Ord_cmp(a[2], b[2])

\* The order of keys with the first component alone deciding.
Vec_cmp_first(a, b) ==
    IF a = <<>> \/ b = <<>> THEN Ord_cmp(Len(a), Len(b)) ELSE VarData_cmp(a[1], b[1])

RECURSIVE Vec_cmp(_, _)
Vec_cmp(a, b) ==
    IF a = <<>> THEN (IF b = <<>> THEN "Equal" ELSE "Less")
    ELSE IF b = <<>> THEN "Greater"
    ELSE LET o == VarData_cmp(Head(a), Head(b))
         IN  IF o # "Equal" THEN o ELSE Vec_cmp(Tail(a), Tail(b))

\* The comparator F: FnMut(&L::Item, &R::Item) -> Ordering.  KeyCmp is the
\* closure |x, y| Ord::cmp(&x.0, &y.0) of the documented use; ScriptCmp is a
\* closure that answers from a script rs, whatever the items are; VecCmp is
\* the same closure as KeyCmp over keys that are Vec<VarData>.  calls counts
\* the calls made since the operator's next() was entered.
KeyCmp == [mode |-> "key", rs |-> <<>>, calls |-> 0]
ScriptCmp == [mode |-> "script", rs |-> <<>>, calls |-> 0]
VecCmp == [mode |-> "vec", rs |-> <<>>, calls |-> 0]

CmpCall(c, l, r) ==
    IF c.mode = "key"
    THEN [cmp |-> [c EXCEPT !.calls = @ + 1], ord |-> Ord_cmp(l[1], r[1])]
    ELSE IF c.mode = "vec"
    THEN [cmp |-> [c EXCEPT !.calls = @ + 1], ord |-> Vec_cmp(l[1], r[1])]
    ELSE [cmp |-> [c EXCEPT !.rs = Tail(@), !.calls = @ + 1], ord |-> Head(c.rs)]

\* ------------------------------------------------------------ MergeJoinInner
MergeJoinInner_new(l, r, c) ==
    [left |-> Peekable(l), right |-> Peekable(r), cmp |-> c]

\* MergeJoinInner::next with the Less and Greater arms exchanged.
RECURSIVE MergeJoinInner_next_swap(_)
MergeJoinInner_next_swap(self) ==
    LET pl == Peek(self.left)
        pr == Peek(self.right)
        s1 == [self EXCEPT !.left = pl.p, !.right = pr.p]
    IN  IF IsSome(pl.item) /\ IsSome(pr.item)
        THEN LET c == CmpCall(s1.cmp, Unwrap(pl.item), Unwrap(pr.item))
                 s2 == [s1 EXCEPT !.cmp = c.cmp]
                 nl == PeekableNext(s2.left)
                 nr == PeekableNext(s2.right)
             IN  CASE c.ord = "Less" -> MergeJoinInner_next_swap([s2 EXCEPT !.right = nr.p])
                   [] c.ord = "Greater" -> MergeJoinInner_next_swap([s2 EXCEPT !.left = nl.p])
                   [] c.ord = "Equal" ->
                        [self |-> [s2 EXCEPT !.left = nl.p, !.right = nr.p],
                         ret |-> IF IsSome(nl.item) /\ IsSome(nr.item)
                                 THEN Some(<<Unwrap(nl.item), Unwrap(nr.item)>>)
                                 ELSE None]
        ELSE [self |-> s1, ret |-> None]

RECURSIVE MergeJoinInner_next(_)
MergeJoinInner_next(self) ==
    LET pl == Peek(self.left)
        pr == Peek(self.right)
        s1 == [self EXCEPT !.left = pl.p, !.right = pr.p]
    IN  IF IsSome(pl.item) /\ IsSome(pr.item)
        THEN LET c == CmpCall(s1.cmp, Unwrap(pl.item), Unwrap(pr.item))
                 s2 == [s1 EXCEPT !.cmp = c.cmp]
                 nl == PeekableNext(s2.left)
                 nr == PeekableNext(s2.right)
             IN  CASE c.ord = "Less" -> MergeJoinInner_next([s2 EXCEPT !.left = nl.p])
                   [] c.ord = "Greater" -> MergeJoinInner_next([s2 EXCEPT !.right = nr.p])
                   [] c.ord = "Equal" ->
                        [self |-> [s2 EXCEPT !.left = nl.p, !.right = nr.p],
                         ret |-> IF IsSome(nl.item) /\ IsSome(nr.item)
                                 THEN Some(<<Unwrap(nl.item), Unwrap(nr.item)>>)
                                 ELSE None]
        ELSE [self |-> s1, ret |-> None]

\* --------------------------------------------------------- MergeJoinLeftExcl
MergeJoinLeftExcl_new(l, r, c) ==
    [left |-> Peekable(l), right |-> Peekable(r), cmp |-> c, fused |-> None]

\* let ord = match self.fused { ... } without the (Some(_), None) arm.
FusedOrd_nodrain(self, full) ==
    IF IsSome(self.fused)
    THEN [self |-> self, ord |-> Some(Unwrap(self.fused))]
    ELSE LET pl == Peek(self.left)
             pr == Peek(self.right)
             s1 == [self EXCEPT !.left = pl.p, !.right = pr.p]
         IN  CASE IsSome(pl.item) /\ IsSome(pr.item) ->
                    LET c == CmpCall(s1.cmp, Unwrap(pl.item), Unwrap(pr.item)) IN
                    [self |-> [s1 EXCEPT !.cmp = c.cmp], ord |-> Some(c.ord)]
               [] ~IsSome(pl.item) /\ IsSome(pr.item) /\ full ->
                    [self |-> [s1 EXCEPT !.fused = Some("Greater")], ord |-> Some("Greater")]
               [] OTHER -> [self |-> s1, ord |-> None]

\* let ord = match self.fused { ... } whose (Some(_), None) arm yields Equal,
\* which takes next() into its Equal arm with the right side exhausted.
FusedOrd_equal(self, full) ==
    IF IsSome(self.fused)
    THEN [self |-> self, ord |-> Some(Unwrap(self.fused))]
    ELSE LET pl == Peek(self.left)
             pr == Peek(self.right)
             s1 == [self EXCEPT !.left = pl.p, !.right = pr.p]
         IN  CASE IsSome(pl.item) /\ IsSome(pr.item) ->
                    LET c == CmpCall(s1.cmp, Unwrap(pl.item), Unwrap(pr.item)) IN
                    [self |-> [s1 EXCEPT !.cmp = c.cmp], ord |-> Some(c.ord)]
               [] IsSome(pl.item) /\ ~IsSome(pr.item) -> [self |-> s1, ord |-> Some("Equal")]
               [] ~IsSome(pl.item) /\ IsSome(pr.item) /\ full ->
                    [self |-> [s1 EXCEPT !.fused = Some("Greater")], ord |-> Some("Greater")]
               [] OTHER -> [self |-> s1, ord |-> None]

\* let ord = match self.fused { ... } whose (Some(_), None) arm yields Less and
\* leaves the register as it is.
FusedOrd_unset(self, full) ==
    IF IsSome(self.fused)
    THEN [self |-> self, ord |-> Some(Unwrap(self.fused))]
    ELSE LET pl == Peek(self.left)
             pr == Peek(self.right)
             s1 == [self EXCEPT !.left = pl.p, !.right = pr.p]
         IN  CASE IsSome(pl.item) /\ IsSome(pr.item) ->
                    LET c == CmpCall(s1.cmp, Unwrap(pl.item), Unwrap(pr.item)) IN
                    [self |-> [s1 EXCEPT !.cmp = c.cmp], ord |-> Some(c.ord)]
               [] IsSome(pl.item) /\ ~IsSome(pr.item) -> [self |-> s1, ord |-> Some("Less")]
               [] ~IsSome(pl.item) /\ IsSome(pr.item) /\ full ->
                    [self |-> [s1 EXCEPT !.fused = Some("Greater")], ord |-> Some("Greater")]
               [] OTHER -> [self |-> s1, ord |-> None]

\* let ord = match self.fused { ... }: the state after the match, and the
\* ordering it yields (None where the match returns None from next()).  The
\* (None, Some(_)) arm exists in full-outer only.
FusedOrd(self, full) ==
    IF IsSome(self.fused)
    THEN [self |-> self, ord |-> Some(Unwrap(self.fused))]
    ELSE LET pl == Peek(self.left)
             pr == Peek(self.right)
             s1 == [self EXCEPT !.left = pl.p, !.right = pr.p]
         IN  CASE IsSome(pl.item) /\ IsSome(pr.item) ->
                    LET c == CmpCall(s1.cmp, Unwrap(pl.item), Unwrap(pr.item)) IN
                    [self |-> [s1 EXCEPT !.cmp = c.cmp], ord |-> Some(c.ord)]
               [] IsSome(pl.item) /\ ~IsSome(pr.item) ->
                    [self |-> [s1 EXCEPT !.fused = Some("Less")], ord |-> Some("Less")]
               [] ~IsSome(pl.item) /\ IsSome(pr.item) /\ full ->
                    [self |-> [s1 EXCEPT !.fused = Some("Greater")], ord |-> Some("Greater")]
               [] OTHER -> [self |-> s1, ord |-> None]

\* MergeJoinLeftExcl::next whose Equal arm returns the left item.
RECURSIVE MergeJoinLeftExcl_next_keep(_)
MergeJoinLeftExcl_next_keep(self) ==
    LET m == FusedOrd(self, FALSE) IN
    IF ~IsSome(m.ord) THEN [self |-> m.self, ret |-> None]
    ELSE LET ord == Unwrap(m.ord)
             nl == PeekableNext(m.self.left)
             nr == PeekableNext(m.self.right)
         IN  CASE ord = "Less" -> [self |-> [m.self EXCEPT !.left = nl.p], ret |-> nl.item]
               [] ord = "Greater" -> MergeJoinLeftExcl_next_keep([m.self EXCEPT !.right = nr.p])
               [] ord = "Equal" ->
                    [self |-> [m.self EXCEPT !.left = nl.p, !.right = nr.p], ret |-> nl.item]

RECURSIVE MergeJoinLeftExcl_next(_)
MergeJoinLeftExcl_next(self) ==
    LET m == FusedOrd(self, FALSE) IN
    IF ~IsSome(m.ord) THEN [self |-> m.self, ret |-> None]
    ELSE LET ord == Unwrap(m.ord)
             nl == PeekableNext(m.self.left)
             nr == PeekableNext(m.self.right)
         IN  CASE ord = "Less" -> [self |-> [m.self EXCEPT !.left = nl.p], ret |-> nl.item]
               [] ord = "Greater" -> MergeJoinLeftExcl_next([m.self EXCEPT !.right = nr.p])
               [] ord = "Equal" ->
                    MergeJoinLeftExcl_next([m.self EXCEPT !.left = nl.p, !.right = nr.p])

\* -------------------------------------------------------- MergeJoinLeftOuter
MergeJoinLeftOuter_new(l, r, c) ==
    [left |-> Peekable(l), right |-> Peekable(r), cmp |-> c, fused |-> None]

\* MergeJoinLeftOuter::next whose Equal arm returns Left(l).
RECURSIVE MergeJoinLeftOuter_next_left(_)
MergeJoinLeftOuter_next_left(self) ==
    LET m == FusedOrd(self, FALSE) IN
    IF ~IsSome(m.ord) THEN [self |-> m.self, ret |-> None]
    ELSE LET ord == Unwrap(m.ord)
             nl == PeekableNext(m.self.left)
             nr == PeekableNext(m.self.right)
         IN  CASE ord = "Less" ->
                    [self |-> [m.self EXCEPT !.left = nl.p],
                     ret |-> IF IsSome(nl.item) THEN Some(Left(Unwrap(nl.item))) ELSE None]
               [] ord = "Greater" -> MergeJoinLeftOuter_next_left([m.self EXCEPT !.right = nr.p])
               [] ord = "Equal" ->
                    [self |-> [m.self EXCEPT !.left = nl.p, !.right = nr.p],
                     ret |-> IF IsSome(nl.item) /\ IsSome(nr.item)
                             THEN Some(Left(Unwrap(nl.item)))
                             ELSE None]

\* MergeJoinLeftOuter::next whose Less arm returns the peeked item and leaves
\* it in the cursor.
RECURSIVE MergeJoinLeftOuter_next_peek(_)
MergeJoinLeftOuter_next_peek(self) ==
    LET m == FusedOrd(self, FALSE) IN
    IF ~IsSome(m.ord) THEN [self |-> m.self, ret |-> None]
    ELSE LET ord == Unwrap(m.ord)
             pl == Peek(m.self.left)
             nl == PeekableNext(m.self.left)
             nr == PeekableNext(m.self.right)
         IN  CASE ord = "Less" ->
                    [self |-> [m.self EXCEPT !.left = pl.p],
                     ret |-> IF IsSome(pl.item) THEN Some(Left(Unwrap(pl.item))) ELSE None]
               [] ord = "Greater" -> MergeJoinLeftOuter_next_peek([m.self EXCEPT !.right = nr.p])
               [] ord = "Equal" ->
                    [self |-> [m.self EXCEPT !.left = nl.p, !.right = nr.p],
                     ret |-> IF IsSome(nl.item) /\ IsSome(nr.item)
                             THEN Some(Both(Unwrap(nl.item), Unwrap(nr.item)))
                             ELSE None]

RECURSIVE MergeJoinLeftOuter_next(_)
MergeJoinLeftOuter_next(self) ==
    LET m == FusedOrd(self, FALSE) IN
    IF ~IsSome(m.ord) THEN [self |-> m.self, ret |-> None]
    ELSE LET ord == Unwrap(m.ord)
             nl == PeekableNext(m.self.left)
             nr == PeekableNext(m.self.right)
         IN  CASE ord = "Less" ->
                    [self |-> [m.self EXCEPT !.left = nl.p],
                     ret |-> IF IsSome(nl.item) THEN Some(Left(Unwrap(nl.item))) ELSE None]
               [] ord = "Greater" -> MergeJoinLeftOuter_next([m.self EXCEPT !.right = nr.p])
               [] ord = "Equal" ->
                    [self |-> [m.self EXCEPT !.left = nl.p, !.right = nr.p],
                     ret |-> IF IsSome(nl.item) /\ IsSome(nr.item)
                             THEN Some(Both(Unwrap(nl.item), Unwrap(nr.item)))
                             ELSE None]

\* -------------------------------------------------------- MergeJoinFullOuter
MergeJoinFullOuter_new(l, r, c) ==
    [left |-> Peekable(l), right |-> Peekable(r), cmp |-> c, fused |-> None]

\* MergeJoinFullOuter::next without the (None, Some(_)) arm.
MergeJoinFullOuter_next_nofuse(self) ==
    LET m == FusedOrd(self, FALSE) IN
    IF ~IsSome(m.ord) THEN [self |-> m.self, ret |-> None]
    ELSE LET ord == Unwrap(m.ord)
             nl == PeekableNext(m.self.left)
             nr == PeekableNext(m.self.right)
         IN  CASE ord = "Less" ->
                    [self |-> [m.self EXCEPT !.left = nl.p],
                     ret |-> IF IsSome(nl.item) THEN Some(Left(Unwrap(nl.item))) ELSE None]
               [] ord = "Greater" ->
                    [self |-> [m.self EXCEPT !.right = nr.p],
                     ret |-> IF IsSome(nr.item) THEN Some(Right(Unwrap(nr.item))) ELSE None]
               [] ord = "Equal" ->
                    [self |-> [m.self EXCEPT !.left = nl.p, !.right = nr.p],
                     ret |-> IF IsSome(nl.item) /\ IsSome(nr.item)
                             THEN Some(Both(Unwrap(nl.item), Unwrap(nr.item)))
                             ELSE None]

\* MergeJoinFullOuter::next whose Greater arm takes the left item.
MergeJoinFullOuter_next_greater(self) ==
    LET m == FusedOrd(self, TRUE) IN
    IF ~IsSome(m.ord) THEN [self |-> m.self, ret |-> None]
    ELSE LET ord == Unwrap(m.ord)
             nl == PeekableNext(m.self.left)
             nr == PeekableNext(m.self.right)
         IN  CASE ord = "Less" \/ (ord = "Greater" /\ ~IsSome(m.self.fused)) ->
                    [self |-> [m.self EXCEPT !.left = nl.p],
                     ret |-> IF IsSome(nl.item) THEN Some(Left(Unwrap(nl.item))) ELSE None]
               [] ord = "Greater" /\ IsSome(m.self.fused) ->
                    [self |-> [m.self EXCEPT !.right = nr.p],
                     ret |-> IF IsSome(nr.item) THEN Some(Right(Unwrap(nr.item))) ELSE None]
               [] ord = "Equal" ->
                    [self |-> [m.self EXCEPT !.left = nl.p, !.right = nr.p],
                     ret |-> IF IsSome(nl.item) /\ IsSome(nr.item)
                             THEN Some(Both(Unwrap(nl.item), Unwrap(nr.item)))
                             ELSE None]

MergeJoinFullOuter_next(self) ==
    LET m == FusedOrd(self, TRUE) IN
    IF ~IsSome(m.ord) THEN [self |-> m.self, ret |-> None]
    ELSE LET ord == Unwrap(m.ord)
             nl == PeekableNext(m.self.left)
             nr == PeekableNext(m.self.right)
         IN  CASE ord = "Less" ->
                    [self |-> [m.self EXCEPT !.left = nl.p],
                     ret |-> IF IsSome(nl.item) THEN Some(Left(Unwrap(nl.item))) ELSE None]
               [] ord = "Greater" ->
                    [self |-> [m.self EXCEPT !.right = nr.p],
                     ret |-> IF IsSome(nr.item) THEN Some(Right(Unwrap(nr.item))) ELSE None]
               [] ord = "Equal" ->
                    [self |-> [m.self EXCEPT !.left = nl.p, !.right = nr.p],
                     ret |-> IF IsSome(nl.item) /\ IsSome(nr.item)
                             THEN Some(Both(Unwrap(nl.item), Unwrap(nr.item)))
                             ELSE None]

\* ----------------------------------------------------------- merge: actions
\* The caller of SpecMerge passes the key comparator.
InitMerge ==
    /\ L \in LeftInputs
    /\ R \in RightInputs
    /\ op = "none"
    /\ left = Iter(L)
    /\ right = Iter(R)
    /\ out = <<>>
    /\ status = "new"
    /\ cmp = KeyCmp
    /\ fused = None
    /\ map = EmptyMap
    /\ set = {}
    /\ excl_iter = None
    /\ f = <<>>
    /\ res = [kind |-> "Idle"]
    /\ record = <<>>
    /\ field_sep = <<>>
    /\ key_idx = <<>>
    /\ keys = [kind |-> "Idle"]
    /\ args = [kind |-> "Idle"]
    /\ stdout = [kind |-> "Idle"]

\* The caller of SpecMergeAny passes a comparator that answers anything; such a
\* comparator does not look at the keys, so one key stands for all.
ScriptLeftInputs == {[i \in 1..n |-> <<1, LRec(i)>>] : n \in 0..MaxLeft}
ScriptRightInputs == {[j \in 1..n |-> <<1, RRec(j)>>] : n \in 0..MaxRight}

InitMergeAny ==
    /\ L \in ScriptLeftInputs
    /\ R \in ScriptRightInputs
    /\ op = "none"
    /\ left = Iter(L)
    /\ right = Iter(R)
    /\ out = <<>>
    /\ status = "new"
    /\ cmp = ScriptCmp
    /\ fused = None
    /\ map = EmptyMap
    /\ set = {}
    /\ excl_iter = None
    /\ f = <<>>
    /\ res = [kind |-> "Idle"]
    /\ record = <<>>
    /\ field_sep = <<>>
    /\ key_idx = <<>>
    /\ keys = [kind |-> "Idle"]
    /\ args = [kind |-> "Idle"]
    /\ stdout = [kind |-> "Idle"]

\* l.merge_join_*_by(r, cmp)
ConstructMerge(name, s) ==
    /\ op = "none"
    /\ op' = name
    /\ left' = s.left
    /\ right' = s.right
    /\ cmp' = s.cmp
    /\ UNCHANGED <<L, R, out, status, hashvars, utilvars>>

NewMergeInner ==
    ConstructMerge("merge_inner", MergeJoinInner_new(left, right, cmp)) /\ UNCHANGED fused

NewMergeLeftExcl ==
    LET s == MergeJoinLeftExcl_new(left, right, cmp) IN
    ConstructMerge("merge_left_excl", s) /\ fused' = s.fused

NewMergeLeftOuter ==
    LET s == MergeJoinLeftOuter_new(left, right, cmp) IN
    ConstructMerge("merge_left_outer", s) /\ fused' = s.fused

NewMergeFullOuter ==
    LET s == MergeJoinFullOuter_new(left, right, cmp) IN
    ConstructMerge("merge_full_outer", s) /\ fused' = s.fused

\* What a scripted comparator may answer during one next(): any sequence of
\* orderings, one answer for each item the cursors still hold.
Scripts ==
    IF cmp.mode = "key" THEN {<<>>}
    ELSE [1..(Len(Rest(left)) + Len(Rest(right))) -> Ordering]

MergeSelf(rs) ==
    [left |-> EnterPeekable(left), right |-> EnterPeekable(right),
     cmp |-> [cmp EXCEPT !.rs = rs, !.calls = 0]]

FusedSelf(rs) ==
    [left |-> EnterPeekable(left), right |-> EnterPeekable(right),
     cmp |-> [cmp EXCEPT !.rs = rs, !.calls = 0], fused |-> fused]

MergeStep(r) ==
    /\ left' = r.self.left
    /\ right' = r.self.right
    /\ cmp' = [r.self.cmp EXCEPT !.rs = <<>>]
    /\ Return(r.ret)
    /\ UNCHANGED <<L, R, op, hashvars, utilvars>>

NextMergeInner ==
    /\ op = "merge_inner"
    /\ \E rs \in Scripts : MergeStep(MergeJoinInner_next(MergeSelf(rs)))
    /\ UNCHANGED fused

NextMergeLeftExcl ==
    /\ op = "merge_left_excl"
    /\ \E rs \in Scripts :
         LET r == MergeJoinLeftExcl_next(FusedSelf(rs)) IN
         MergeStep(r) /\ fused' = r.self.fused

NextMergeLeftOuter ==
    /\ op = "merge_left_outer"
    /\ \E rs \in Scripts :
         LET r == MergeJoinLeftOuter_next(FusedSelf(rs)) IN
         MergeStep(r) /\ fused' = r.self.fused

NextMergeFullOuter ==
    /\ op = "merge_full_outer"
    /\ \E rs \in Scripts :
         LET r == MergeJoinFullOuter_next(FusedSelf(rs)) IN
         MergeStep(r) /\ fused' = r.self.fused

NextMerge ==
    \/ NewMergeInner \/ NewMergeLeftExcl \/ NewMergeLeftOuter \/ NewMergeFullOuter
    \/ NextMergeInner \/ NextMergeLeftExcl \/ NextMergeLeftOuter \/ NextMergeFullOuter

SpecMerge == InitMerge /\ [][NextMerge]_vars

SpecMergeAny == InitMergeAny /\ [][NextMerge]_vars

\* The ten operators together: the caller builds any one of them over the
\* inputs (the merge operators with the key comparator) and calls next().
NextJoins == Next \/ NextMerge

SpecJoins == InitMerge /\ [][NextJoins]_vars

\* ====================================================================== util
\* A &str is the sequence of its characters.
Digits == <<"0", "1", "2", "3", "4", "5", "6", "7", "8", "9">>
IsDigit(c) == \E d \in 1..10 : Digits[d] = c
DigitVal(c) == (CHOOSE d \in 1..10 : Digits[d] = c) - 1

\* usize::MAX.  It is 2^64 - 1 in the program; here it is the largest integer
\* the checker holds, above every index a field token of the model spells.
usize_MAX == 2147483647

\* s.split(c): the pieces of s between the occurrences of c, at least one.
RECURSIVE Split(_, _)
Split(s, c) ==
    IF \A i \in 1..Len(s) : s[i] # c THEN <<s>>
    ELSE LET i == CHOOSE x \in 1..Len(s) : s[x] = c /\ \A y \in 1..(x - 1) : s[y] # c
         IN  <<SubSeq(s, 1, i - 1)>> \o Split(SubSeq(s, i + 1, Len(s)), c)

\* .take(n)
Take(s, n) == SubSeq(s, 1, IF Len(s) < n THEN Len(s) ELSE n)

\* The value of a sequence of decimal digits.
RECURSIVE DecimalVal(_, _)
DecimalVal(ds, acc) ==
    IF ds = <<>> THEN acc ELSE DecimalVal(Tail(ds), 10 * acc + DigitVal(Head(ds)))

\* s.parse::<usize>(): an optional '+', then one or more decimal digits, the
\* value at most usize::MAX; the tokens of the model have few digits.
ParseUsize(s) ==
    LET ds == IF s # <<>> /\ Head(s) = "+" THEN Tail(s) ELSE s IN
    IF ds = <<>> \/ Len(ds) > 9 \/ \E i \in 1..Len(ds) : ~IsDigit(ds[i]) THEN None
    ELSE Some(DecimalVal(ds, 0))

\* f.iter().enumerate().flat_map(|(i0, s)| s.split('-').enumerate().take(2)
\*     .map(move |(i1, s)| (i0, i1, s))): the triples, in order.
RECURSIVE FlatMap(_, _)
FlatMap(fs, i0) ==
    IF fs = <<>> THEN <<>>
    ELSE LET ps == Take(Split(Head(fs), "-"), 2) IN
         [i \in 1..Len(ps) |-> <<i0, i - 1, ps[i]>>] \o FlatMap(Tail(fs), i0 + 1)

\* idx.sort_by(|a, b| a.0.cmp(&b.0)): a stable sort; here by insertion.
RECURSIVE InsertBy0(_, _)
InsertBy0(sorted, t) ==
    IF sorted = <<>> THEN <<t>>
    ELSE IF Head(sorted)[1] <= t[1] THEN <<Head(sorted)>> \o InsertBy0(Tail(sorted), t)
    ELSE <<t>> \o sorted

\* A sort_by that leaves the vector as it is.
sort_by_noop(idx) == idx

RECURSIVE sort_by(_)
sort_by(idx) ==
    IF idx = <<>> THEN <<>>
    ELSE InsertBy0(sort_by(SubSeq(idx, 1, Len(idx) - 1)), idx[Len(idx)])

\* How a call ends.
Idle == [kind |-> "Idle"]
Ok(idx) == [kind |-> "Ok", idx |-> idx]
\* Err(clap::Error {message, kind: clap::ErrorKind::ValueValidation, info: None})
Err(msg) == [kind |-> "Err", error |-> [message |-> msg, kind |-> "ValueValidation"]]
Panic == [kind |-> "Panic"]
UB == [kind |-> "UB"]

\* The two builds: with overflow checks (debug) u - 1 panics on u = 0, without
\* them (release) it wraps to usize::MAX.
Builds == {"debug", "release"}

\* for (i0, i1, s) in it { .. }
\* The loop writing every data type into the first triple of the vector.
RECURSIVE ParseLoop_first(_, _, _)
ParseLoop_first(it, idx, build) ==
    IF it = <<>> THEN Ok(idx)
    ELSE LET i0 == Head(it)[1]
             i1 == Head(it)[2]
             s == Head(it)[3]
         IN  IF i1 = 0
             THEN LET u == ParseUsize(s) IN
                  IF ~IsSome(u) THEN Err("Error: could not parse integer fields!")
                  ELSE IF Unwrap(u) = 0
                       THEN IF build = "debug" THEN Panic
                            ELSE ParseLoop_first(Tail(it), Append(idx, <<usize_MAX, i0, "S">>), build)
                       ELSE ParseLoop_first(Tail(it), Append(idx, <<Unwrap(u) - 1, i0, "S">>), build)
             ELSE IF s \notin {<<"i">>, <<"u">>}
                  THEN Err("Error: '{}' is not a valid data type!")
                  ELSE ParseLoop_first(Tail(it),
                                       [idx EXCEPT ![1][3] = IF s = <<"i">> THEN "I" ELSE "U"],
                                       build)

RECURSIVE ParseLoop(_, _, _)
ParseLoop(it, idx, build) ==
    IF it = <<>> THEN Ok(idx)
    ELSE LET i0 == Head(it)[1]
             i1 == Head(it)[2]
             s == Head(it)[3]
         IN  IF i1 = 0
             THEN LET u == ParseUsize(s) IN
                  IF ~IsSome(u) THEN Err("Error: could not parse integer fields!")
                  ELSE IF Unwrap(u) = 0
                       THEN IF build = "debug" THEN Panic
                            ELSE ParseLoop(Tail(it), Append(idx, <<usize_MAX, i0, "S">>), build)
                       ELSE ParseLoop(Tail(it), Append(idx, <<Unwrap(u) - 1, i0, "S">>), build)
             ELSE IF s \notin {<<"i">>, <<"u">>}
                  THEN Err("Error: '{}' is not a valid data type!")
                  ELSE IF i0 + 1 \notin DOMAIN idx THEN UB
                       ELSE ParseLoop(Tail(it),
                                      [idx EXCEPT ![i0 + 1][3] = IF s = <<"i">> THEN "I" ELSE "U"],
                                      build)

fields_to_idx(fs, build) ==
    LET p == ParseLoop(FlatMap(fs, 0), <<>>, build) IN
    IF p.kind # "Ok" THEN p
    ELSE LET idx == sort_by(p.idx) IN
         IF idx = <<>> THEN Err("Error: at least one key field expected!")
         ELSE IF \E i \in 1..(Len(idx) - 1) : idx[i][1] = idx[i + 1][1]
              THEN Err("Error: the key fields must be unique!")
              ELSE Ok(idx)

\* -------------------------------------------------------------- util: actions
\* The field tokens a caller may write: well-formed ones and malformed ones.
FieldTokens ==
    { <<"1">>, <<"2">>, <<"3">>, <<"0">>, <<"1", "2">>, <<"+", "1">>,
      <<"1", "-", "i">>, <<"2", "-", "u">>, <<"3", "-", "i">>,
      <<"3", "-", "i", "-", "x">>, <<"1", "-">>, <<"2", "-", "x">>,
      <<"x">>, <<>>, <<"-", "i">> }

InitUtil ==
    /\ f \in SeqsUpTo(FieldTokens, MaxFields)
    /\ res = Idle
    /\ record = <<>>
    /\ field_sep = <<>>
    /\ key_idx = <<>>
    /\ keys = Idle
    /\ args = Idle
    /\ stdout = [kind |-> "Idle"]
    /\ L = <<>>
    /\ R = <<>>
    /\ op = "none"
    /\ left = Iter(<<>>)
    /\ right = Iter(<<>>)
    /\ out = <<>>
    /\ status = "new"
    /\ map = EmptyMap
    /\ set = {}
    /\ excl_iter = None
    /\ cmp = <<>>
    /\ fused = None

CallFieldsToIdx ==
    /\ res = Idle
    /\ \E build \in Builds : res' = fields_to_idx(f, build)
    /\ UNCHANGED <<f, record, field_sep, key_idx, keys, args, stdout>>
    /\ UNCHANGED <<L, R, op, left, right, out, status, hashvars, mergevars>>

NextUtil == CallFieldsToIdx

SpecUtil == InitUtil /\ [][NextUtil]_vars

\* ================================================================ extract_key
\* record.split(field_sep): the pieces of s between the occurrences of the
\* (non-empty) string sep, at least one.
RECURSIVE SplitStr(_, _)
SplitStr(s, sep) ==
    LET n == Len(sep)
        hits == {i \in 1..(Len(s) - n + 1) : SubSeq(s, i, i + n - 1) = sep}
    IN  IF hits = {} THEN <<s>>
        ELSE LET i == CHOOSE x \in hits : \A y \in hits : x <= y IN
             <<SubSeq(s, 1, i - 1)>> \o SplitStr(SubSeq(s, i + n, Len(s)), sep)

\* .enumerate()
\* The same with the fields numbered from the end of the record.
Enumerate_fromend(s) == [i \in 1..Len(s) |-> <<Len(s) - i, s[i]>>]

Enumerate(s) == [i \in 1..Len(s) |-> <<i - 1, s[i]>>]

\* k.parse::<u64>(): an optional '+', then one or more decimal digits.
ParseU64(s) == ParseUsize(s)

\* k.parse::<i64>(): an optional '+' or '-', then one or more decimal digits.
ParseI64(s) ==
    IF s # <<>> /\ Head(s) = "-"
    THEN LET m == ParseUsize(Tail(s)) IN
         IF IsSome(m) /\ Tail(s)[1] # "+" THEN Some(0 - Unwrap(m)) ELSE None
    ELSE ParseUsize(s)

\* VarData
VarI(n) == <<"I", n>>
VarU(n) == <<"U", n>>
VarS(s) == <<"S", s>>

\* The match with the String arm dropping a leading sign of the field.
ParseData_unsigned(k, dt) ==
    CASE dt = "I" -> (IF IsSome(ParseI64(k)) THEN Some(VarI(Unwrap(ParseI64(k)))) ELSE None)
      [] dt = "U" -> (IF IsSome(ParseU64(k)) THEN Some(VarU(Unwrap(ParseU64(k)))) ELSE None)
      [] dt = "S" -> Some(VarS(IF k # <<>> /\ Head(k) \in {"-", "+"} THEN Tail(k) ELSE k))

\* let data = match dt { .. }: None where expect() panics.
ParseData(k, dt) ==
    CASE dt = "I" -> (IF IsSome(ParseI64(k)) THEN Some(VarI(Unwrap(ParseI64(k)))) ELSE None)
      [] dt = "U" -> (IF IsSome(ParseU64(k)) THEN Some(VarU(Unwrap(ParseU64(k)))) ELSE None)
      [] dt = "S" -> Some(VarS(k))

\* A slot of the vector's buffer that nothing has been written to.
Uninit == <<"uninit">>

\* Vec::with_capacity(n): the buffer (slots 0..n-1) and the length.
Vec_with_capacity(n) == [buf |-> [i \in 0..(n - 1) |-> Uninit], len |-> 0]

\* The elements of a vector: its slots 0..len-1.
Elems(v) == [n \in 1..v.len |-> v.buf[n - 1]]

\* How extract_key ends: it returns keys, or panics (the vector, as it is
\* then, is dropped while unwinding), or writes outside the buffer.
Returned(v) == [kind |-> "Ok", vec |-> v]
Panicked(msg, v) == [kind |-> "Panic", msg |-> msg, vec |-> v]

\* ptr::write(ptr.offset(i), data); actual_len += 1; keys.set_len(actual_len)
\* The write going to the end of the vector (push), not to offset i.
ptr_write_push(v, i, data) == [buf |-> [v.buf EXCEPT ![v.len] = data], len |-> v.len + 1]

ptr_write(v, i, data) == [buf |-> [v.buf EXCEPT ![i] = data], len |-> v.len + 1]

\* for ((_, k), &(_, i, ref dt)) in key_fields_it { .. }: ExtractLoop asks the
\* merge join for its next element n, ExtractBody is the body of the loop for
\* it and Place the end of the body, data being the atom the match gave.
RECURSIVE ExtractLoop(_, _)

Place(it, v, i, data) ==
    IF ~IsSome(data) THEN Panicked("Error while parsing the key number", v)
    ELSE IF i \notin DOMAIN v.buf THEN UB
    ELSE ExtractLoop(it, ptr_write(v, i, Unwrap(data)))

ExtractBody(n, v) ==
    IF ~IsSome(n.ret) THEN Returned(v)
    ELSE Place(n.self, v, Unwrap(n.ret)[2][2],
               ParseData(Unwrap(n.ret)[1][2], Unwrap(n.ret)[2][3]))

ExtractLoop(it, v) == ExtractBody(MergeJoinInner_next(it), v)

\* if actual_len != keys_len { panic!(..) }
\* The vector returned without comparing actual_len with keys_len.
CheckLen_none(r, keys_len) == r

CheckLen(r, keys_len) ==
    IF r.kind = "Ok" /\ r.vec.len # keys_len
    THEN Panicked("Error during the key extraction: the key index exceeds the number of fields in the record!", r.vec)
    ELSE r

extract_key(rec, sep, plan) ==
    CheckLen(ExtractLoop(MergeJoinInner_new(Iter(Enumerate(SplitStr(rec, sep))), Iter(plan), KeyCmp),
                         Vec_with_capacity(Len(plan))),
             Len(plan))

\* ------------------------------------------------------- extract_key: actions
\* The fields a record is made of, and the separators.
RecTokens == { <<"2">>, <<"1", "2">>, <<"-", "1">> }
FieldSeps == { <<";">>, <<",">> }

RECURSIVE JoinStr(_, _)
JoinStr(toks, sep) ==
    IF Len(toks) = 1 THEN toks[1] ELSE toks[1] \o sep \o JoinStr(Tail(toks), sep)

\* The records: 1..MaxRecFields fields separated by ';'.
Records ==
    {JoinStr(toks, <<";">>) : toks \in UNION {[1..n -> RecTokens] : n \in 1..MaxRecFields}}

\* The plans fields_to_idx can return: source indices strictly ascending,
\* output positions a permutation of 0..n-1, any tags.  A source index may lie
\* beyond the fields of a record.
DataTypes == {"I", "U", "S"}
IsCanonical(p) ==
    /\ \A i \in 1..(Len(p) - 1) : p[i][1] < p[i + 1][1]
    /\ {p[i][2] : i \in 1..Len(p)} = 0..(Len(p) - 1)
Plans ==
    UNION {{p \in [1..n -> (0..MaxRecFields) \X (0..(n - 1)) \X DataTypes] : IsCanonical(p)}
               : n \in 1..MaxPlan}

InitKey ==
    /\ record \in Records
    /\ field_sep \in FieldSeps
    /\ key_idx \in Plans
    /\ keys = Idle
    /\ f = <<>>
    /\ res = Idle
    /\ args = Idle
    /\ stdout = [kind |-> "Idle"]
    /\ L = <<>>
    /\ R = <<>>
    /\ op = "none"
    /\ left = Iter(<<>>)
    /\ right = Iter(<<>>)
    /\ out = <<>>
    /\ status = "new"
    /\ map = EmptyMap
    /\ set = {}
    /\ excl_iter = None
    /\ cmp = <<>>
    /\ fused = None

CallExtractKey ==
    /\ keys = Idle
    /\ keys' = extract_key(record, field_sep, key_idx)
    /\ UNCHANGED <<f, res, record, field_sep, key_idx, args, stdout>>
    /\ UNCHANGED <<L, R, op, left, right, out, status, hashvars, mergevars>>

NextKey == CallExtractKey

SpecKey == InitKey /\ [][NextKey]_vars

\* ================================================================ front-ends
\* The binaries hjoin and mjoin: main() reads the options, the key fields and
\* the two files, runs the join of the chosen mode and writes the lines.
\* A file is the sequence of records that stream.split(in_rec_sep) yields.
Modes == {"inner", "left-excl", "left-outer", "right-excl", "right-outer", "full-outer"}

\* The separators when no separator option is given.
in_rec_sep == <<"\n">>
in_field_sep == <<",">>
out_rec_sep == in_rec_sep
out_field_sep == in_field_sep

extract_key_value(rec, sep, plan) == <<Elems(extract_key(rec, sep, plan).vec), rec>>

num_fields(rec, sep) == Len(SplitStr(rec, sep))

\* stream.write(fs) r_len times.
RECURSIVE Pad(_, _)
Pad(fs, n) == IF n = 0 THEN <<>> ELSE fs \o Pad(fs, n - 1)

\* The three writers: the call with its arguments, and the text it appends
\* to the output stream.
write_both(lv, rv, fs, rs) ==
    [fn |-> "write_both", lv |-> lv, rv |-> rv, len |-> 0,
     text |-> lv \o fs \o rv \o rs]
write_left(lv, r_len, fs, rs) ==
    [fn |-> "write_left", lv |-> lv, rv |-> <<>>, len |-> r_len,
     text |-> lv \o Pad(fs, r_len) \o rs]
write_right(rv, l_len, fs, rs) ==
    [fn |-> "write_right", lv |-> <<>>, rv |-> rv, len |-> l_len,
     text |-> Pad(fs, l_len) \o rv \o rs]
unreachable == [fn |-> "unreachable", lv |-> <<>>, rv |-> <<>>, len |-> 0, text |-> <<>>]

\* for e in join { .. }: next() is called until it returns None; the elements
\* returned, in order, for each of the joins.  r is what the call of next()
\* before returned: the join as the call left it (self) and the element
\* (ret).  ord is the order in which a hash join that keeps its map iterates it.
RECURSIVE ForHashJoinInner(_, _)
ForHashJoinInner(r, acc) ==
    IF IsSome(r.ret)
    THEN ForHashJoinInner(HashJoinInner_next(r.self), Append(acc, Unwrap(r.ret)))
    ELSE acc

RECURSIVE ForHashJoinLeftOuter(_, _)
ForHashJoinLeftOuter(r, acc) ==
    IF IsSome(r.ret)
    THEN ForHashJoinLeftOuter(HashJoinLeftOuter_next(r.self), Append(acc, Unwrap(r.ret)))
    ELSE acc

RECURSIVE ForHashJoinRightExcl(_, _, _)
ForHashJoinRightExcl(r, ord, acc) ==
    IF IsSome(r.ret)
    THEN ForHashJoinRightExcl(HashJoinRightExcl_next(r.self, ord), ord, Append(acc, Unwrap(r.ret)))
    ELSE acc

RECURSIVE ForHashJoinRightOuter(_, _, _)
ForHashJoinRightOuter(r, ord, acc) ==
    IF IsSome(r.ret)
    THEN ForHashJoinRightOuter(HashJoinRightOuter_next(r.self, ord), ord, Append(acc, Unwrap(r.ret)))
    ELSE acc

RECURSIVE ForHashJoinFullOuter(_, _, _)
ForHashJoinFullOuter(r, ord, acc) ==
    IF IsSome(r.ret)
    THEN ForHashJoinFullOuter(HashJoinFullOuter_next(r.self, ord), ord, Append(acc, Unwrap(r.ret)))
    ELSE acc

RECURSIVE ForMergeJoinInner(_, _)
ForMergeJoinInner(r, acc) ==
    IF IsSome(r.ret)
    THEN ForMergeJoinInner(MergeJoinInner_next(r.self), Append(acc, Unwrap(r.ret)))
    ELSE acc

RECURSIVE ForMergeJoinLeftExcl(_, _)
ForMergeJoinLeftExcl(r, acc) ==
    IF IsSome(r.ret)
    THEN ForMergeJoinLeftExcl(MergeJoinLeftExcl_next(r.self), Append(acc, Unwrap(r.ret)))
    ELSE acc

RECURSIVE ForMergeJoinLeftOuter(_, _)
ForMergeJoinLeftOuter(r, acc) ==
    IF IsSome(r.ret)
    THEN ForMergeJoinLeftOuter(MergeJoinLeftOuter_next(r.self), Append(acc, Unwrap(r.ret)))
    ELSE acc

RECURSIVE ForMergeJoinFullOuter(_, _)
ForMergeJoinFullOuter(r, acc) ==
    IF IsSome(r.ret)
    THEN ForMergeJoinFullOuter(MergeJoinFullOuter_next(r.self), Append(acc, Unwrap(r.ret)))
    ELSE acc

\* The writes of a loop, iteration after iteration.
RECURSIVE Concat(_)
Concat(ws) == IF ws = <<>> THEN <<>> ELSE Head(ws) \o Concat(Tail(ws))

\* for rv in rvv { write_both(lv, rv) } and for lv in lvv { for rv in &rvv { .. } }
BothOne(lv, rvv) == [j \in 1..Len(rvv) |-> write_both(lv, rvv[j], out_field_sep, out_rec_sep)]
BothAll(lvv, rvv) == Concat([i \in 1..Len(lvv) |-> BothOne(lvv[i], rvv)])
LeftAll(lvv, r_len) == [i \in 1..Len(lvv) |-> write_left(lvv[i], r_len, out_field_sep, out_rec_sep)]
RightAll(rvv, l_len) == [j \in 1..Len(rvv) |-> write_right(rvv[j], l_len, out_field_sep, out_rec_sep)]

\* How main ends: the lines written, e.exit() on a bad option, or a panic of
\* extract_key (what was written before it is left out).
Wrote(ws) == [kind |-> "Ok", writes |-> ws]
Exited == [kind |-> "Exit", writes |-> <<>>]
Aborted == [kind |-> "Panic", writes |-> <<>>]

KeysOk(file, plan) ==
    \A i \in 1..Len(file) : extract_key(file[i], in_field_sep, plan).kind = "Ok"

\* .map(|s| extract_key_value(s, in_field_sep, &key_fields_idx))
KeyValues(file, plan) ==
    [i \in 1..Len(file) |-> extract_key_value(file[i], in_field_sep, plan)]

\* .group_by(|s| extract_key(s, in_field_sep, &key_fields_idx)): consecutive
\* records of one key make one item (key, records).
RECURSIVE GroupBy(_, _, _)
GroupBy(file, plan, acc) ==
    IF file = <<>> THEN acc
    ELSE LET k == Elems(extract_key(Head(file), in_field_sep, plan).vec)
             n == Len(acc)
         IN  IF n > 0 /\ acc[n][1] = k
             THEN GroupBy(Tail(file), plan, [acc EXCEPT ![n] = <<k, Append(@[2], Head(file))>>])
             ELSE GroupBy(Tail(file), plan, Append(acc, <<k, <<Head(file)>>>>))

\* main() of hjoin from the match on mode on.  hjoin_join is the join of the
\* mode, run to its end: l and r iterate the (key, record) items of the two
\* files, ord is the order in which the map of right records is iterated.
\* hjoin_body is the body of the for loop of the mode for the element e.
hjoin_join(mode, l, r, ord) ==
    CASE mode = "inner" ->
           ForHashJoinInner(HashJoinInner_next(HashJoinInner_new(l, r)), <<>>)
      [] mode = "left-excl" -> CollectLeftExcl(HashJoinLeftExcl_new(l, r), <<>>)
      [] mode = "left-outer" ->
           ForHashJoinLeftOuter(HashJoinLeftOuter_next(HashJoinLeftOuter_new(l, r)), <<>>)
      [] mode = "right-excl" ->
           ForHashJoinRightExcl(HashJoinRightExcl_next(HashJoinRightExcl_new(l, r), ord), ord, <<>>)
      [] mode = "right-outer" ->
           ForHashJoinRightOuter(HashJoinRightOuter_next(HashJoinRightOuter_new(l, r), ord), ord, <<>>)
      [] mode = "full-outer" ->
           ForHashJoinFullOuter(HashJoinFullOuter_next(HashJoinFullOuter_new(l, r), ord), ord, <<>>)

hjoin_body(mode, e, left_num_fields, right_num_fields) ==
    CASE mode = "inner" -> BothOne(e[1], e[2])
      [] mode = "left-excl" -> <<write_left(e, 0, out_field_sep, out_rec_sep)>>
      [] mode = "left-outer" ->
           CASE e.tag = "Left" -> <<write_left(e.l, right_num_fields, out_field_sep, out_rec_sep)>>
             [] e.tag = "Both" -> BothOne(e.l, e.r)
             [] OTHER -> <<unreachable>>
      [] mode = "right-excl" -> RightAll(e, 0)
      [] mode = "right-outer" ->
           CASE e.tag = "Right" -> RightAll(e.r, left_num_fields)
             [] e.tag = "Both" -> BothOne(e.l, e.r)
             [] OTHER -> <<unreachable>>
      [] mode = "full-outer" ->
           CASE e.tag = "Left" -> <<write_left(e.l, right_num_fields, out_field_sep, out_rec_sep)>>
             [] e.tag = "Right" -> RightAll(e.r, left_num_fields)
             [] e.tag = "Both" -> BothOne(e.l, e.r)

hjoin_for(mode, join, left_num_fields, right_num_fields) ==
    Concat([i \in 1..Len(join) |-> hjoin_body(mode, join[i], left_num_fields, right_num_fields)])

\* records_left.peek(): Some(ref t) => util::num_fields(&t.1, in_field_sep), None => 0
hjoin_num_fields(records) ==
    IF records # <<>> THEN num_fields(records[1][2], in_field_sep) ELSE 0

hjoin_match(mode, records_left, records_right, ord) ==
    hjoin_for(mode, hjoin_join(mode, Iter(records_left), Iter(records_right), ord),
              hjoin_num_fields(records_left), hjoin_num_fields(records_right))

\* main() of mjoin from the match on mode on, in the same way: l and r iterate
\* the (key, records) groups of the two files.
mjoin_join(mode, l, r) ==
    CASE mode = "inner" ->
           ForMergeJoinInner(MergeJoinInner_next(MergeJoinInner_new(l, r, VecCmp)), <<>>)
      [] mode = "left-excl" ->
           ForMergeJoinLeftExcl(MergeJoinLeftExcl_next(MergeJoinLeftExcl_new(l, r, VecCmp)), <<>>)
      [] mode = "left-outer" ->
           ForMergeJoinLeftOuter(MergeJoinLeftOuter_next(MergeJoinLeftOuter_new(l, r, VecCmp)), <<>>)
      [] mode = "right-excl" ->
           ForMergeJoinLeftExcl(MergeJoinLeftExcl_next(MergeJoinLeftExcl_new(r, l, VecCmp)), <<>>)
      [] mode = "right-outer" ->
           ForMergeJoinLeftOuter(MergeJoinLeftOuter_next(MergeJoinLeftOuter_new(r, l, VecCmp)), <<>>)
      [] mode = "full-outer" ->
           ForMergeJoinFullOuter(MergeJoinFullOuter_next(MergeJoinFullOuter_new(l, r, VecCmp)), <<>>)

mjoin_body(mode, e, left_num_fields, right_num_fields) ==
    CASE mode = "inner" -> BothAll(e[1][2], e[2][2])
      [] mode = "left-excl" -> LeftAll(e[2], 0)
      [] mode = "left-outer" ->
           CASE e.tag = "Left" -> LeftAll(e.l[2], right_num_fields)
             [] e.tag = "Both" -> BothAll(e.l[2], e.r[2])
             [] OTHER -> <<unreachable>>
      [] mode = "right-excl" -> RightAll(e[2], 0)
      [] mode = "right-outer" ->
           CASE e.tag = "Left" -> RightAll(e.l[2], left_num_fields)
             [] e.tag = "Both" -> BothAll(e.l[2], e.r[2])
             [] OTHER -> <<unreachable>>
      [] mode = "full-outer" ->
           CASE e.tag = "Left" -> LeftAll(e.l[2], right_num_fields)
             [] e.tag = "Right" -> RightAll(e.r[2], left_num_fields)
             [] e.tag = "Both" -> BothAll(e.l[2], e.r[2])

mjoin_for(mode, join, left_num_fields, right_num_fields) ==
    Concat([i \in 1..Len(join) |-> mjoin_body(mode, join[i], left_num_fields, right_num_fields)])

\* records_left.peek(): Some(ref t) => (t.0).len(), None => 0
mjoin_num_fields(records) == IF records # <<>> THEN Len(records[1][1]) ELSE 0

mjoin_match(mode, records_left, records_right) ==
    mjoin_for(mode, mjoin_join(mode, Iter(records_left), Iter(records_right)),
              mjoin_num_fields(records_left), mjoin_num_fields(records_right))

\* main() up to the match on mode: the key fields are parsed (e.exit() on an
\* error), the files are read and every record gets its key.  hjoin.rs hands
\* FIELDS1 to fields_to_idx as one string and keeps pairs (usize, isize), which
\* util::fields_to_idx as it stands does not take; its key fields are parsed
\* here as mjoin.rs parses them.
hjoin_records(a, key_fields_idx_left, key_fields_idx_right, ord) ==
    IF key_fields_idx_left.kind # "Ok" \/ key_fields_idx_right.kind # "Ok" THEN Exited
    ELSE IF ~KeysOk(a.file1, key_fields_idx_left.idx) \/ ~KeysOk(a.file2, key_fields_idx_right.idx)
    THEN Aborted
    ELSE Wrote(hjoin_match(a.mode, KeyValues(a.file1, key_fields_idx_left.idx),
                           KeyValues(a.file2, key_fields_idx_right.idx), ord))

hjoin(a, ord) ==
    hjoin_records(a, fields_to_idx(a.fields1, "release"), fields_to_idx(a.fields2, "release"), ord)

mjoin_records(a, key_fields_idx_left, key_fields_idx_right) ==
    IF key_fields_idx_left.kind # "Ok" \/ key_fields_idx_right.kind # "Ok" THEN Exited
    ELSE IF ~KeysOk(a.file1, key_fields_idx_left.idx) \/ ~KeysOk(a.file2, key_fields_idx_right.idx)
    THEN Aborted
    ELSE Wrote(mjoin_match(a.mode, GroupBy(a.file1, key_fields_idx_left.idx, <<>>),
                           GroupBy(a.file2, key_fields_idx_right.idx, <<>>)))

mjoin(a) ==
    mjoin_records(a, fields_to_idx(a.fields1, "release"), fields_to_idx(a.fields2, "release"))

\* ---------------------------------------------------------- front-ends: actions
\* The records of FILE1 have two fields, those of FILE2 three; the key is the
\* first field, or the first two, or the second field as a number (which it
\* is not), or the third field (which FILE1 lacks).  The records of a file
\* are of one shape, so the first record read fails if any does, and every
\* mode reads the first record of both files (peek() of both sides).
File1Records == { <<"1", ",", "b">>, <<"2", ",", "b">> }
File2Records == { <<"1", ",", "b", ",", "c">>, <<"2", ",", "b", ",", "c">> }
KeyFields ==
    { << <<"1", "-", "u">> >>, << <<"1", "-", "u">>, <<"2">> >>,
      << <<"2", "-", "u">> >>, << <<"3">> >>, << <<"1", "-", "x">> >> }

InitCli ==
    /\ args \in [bin : {"hjoin", "mjoin"}, mode : Modes,
                 file1 : SeqsUpTo(File1Records, MaxFile),
                 file2 : SeqsUpTo(File2Records, MaxFile),
                 fields1 : KeyFields, fields2 : KeyFields]
    /\ args.fields1 = args.fields2
    /\ stdout = Idle
    /\ f = <<>>
    /\ res = Idle
    /\ record = <<>>
    /\ field_sep = <<>>
    /\ key_idx = <<>>
    /\ keys = Idle
    /\ L = <<>>
    /\ R = <<>>
    /\ op = "none"
    /\ left = Iter(<<>>)
    /\ right = Iter(<<>>)
    /\ out = <<>>
    /\ status = "new"
    /\ map = EmptyMap
    /\ set = {}
    /\ excl_iter = None
    /\ cmp = <<>>
    /\ fused = None

\* The keys of the map hjoin builds from FILE2.
KeysOf(file, plan) ==
    IF plan.kind = "Ok" /\ KeysOk(file, plan.idx)
    THEN {KeyValues(file, plan.idx)[j][1] : j \in 1..Len(file)}
    ELSE {}
MapKeys(a) == KeysOf(a.file2, fields_to_idx(a.fields2, "release"))

MainHjoin ==
    /\ args.bin = "hjoin"
    /\ stdout = Idle
    /\ \E ord \in Orders(MapKeys(args)) : stdout' = hjoin(args, ord)
    /\ UNCHANGED <<f, res, record, field_sep, key_idx, keys, args>>
    /\ UNCHANGED <<L, R, op, left, right, out, status, hashvars, mergevars>>

MainMjoin ==
    /\ args.bin = "mjoin"
    /\ stdout = Idle
    /\ stdout' = mjoin(args)
    /\ UNCHANGED <<f, res, record, field_sep, key_idx, keys, args>>
    /\ UNCHANGED <<L, R, op, left, right, out, status, hashvars, mergevars>>

NextCli == MainHjoin \/ MainMjoin

SpecCli == InitCli /\ [][NextCli]_vars

\* ===================================================================== claims
\* What the inputs determine, stated without the operators' data structures.
LeftKeys == {L[i][1] : i \in 1..Len(L)}
RightKeys == {R[j][1] : j \in 1..Len(R)}

\* The right values with key k, in right-input order.
RightVals(k) ==
    LET s == SelectSeq(R, LAMBDA x : x[1] = k) IN [i \in 1..Len(s) |-> s[i][2]]

\* The number of left items read so far, and those items.
Consumed == Len(L) - Len(left.items)
ConsumedLeft == SubSeq(L, 1, Consumed)
MatchedLeft == SelectSeq(ConsumedLeft, LAMBDA x : x[1] \in RightKeys)

\* The key of the left item a left payload came from; the number of left items with key k.
KeyOfLeft(lv) == L[lv[2]][1]
LeftCount(k) == Cardinality({i \in 1..Len(L) : L[i][1] = k})

\* The lists of the right keys that no left item has.
UnmatchedKeys == RightKeys \ LeftKeys
UnmatchedLists == {RightVals(k) : k \in UnmatchedKeys}

\* C1: hash_join_inner returns, in left order, one (lv, [rv_1..rv_n]) for every
\* left item whose key occurs on the right (the list holding the right values of
\* that key in right order) and nothing for the other left items; when it signals
\* exhaustion the whole left input has been read.
C1_HashInner ==
    op = "inner" =>
        /\ out = [i \in 1..Len(MatchedLeft) |->
                    <<MatchedLeft[i][2], RightVals(MatchedLeft[i][1])>>]
        /\ (status = "none" => Consumed = Len(L))

C1_Witness ==
    /\ op = "inner" /\ status = "none"
    /\ Len(L) = 3 /\ Len(out) = 2
    /\ Len(out[1][2]) = 2
    /\ KeyOfLeft(out[1][1]) = KeyOfLeft(out[2][1])

\* C2: hash_join_left_outer returns exactly one element per left item read, in
\* left order: Both(lv, list) when the key occurs on the right, Left(lv)
\* otherwise, never Right; at exhaustion every left item has its element.
C2_HashLeftOuter ==
    op = "left_outer" =>
        /\ out = [i \in 1..Consumed |->
                    IF L[i][1] \in RightKeys
                    THEN Both(L[i][2], RightVals(L[i][1]))
                    ELSE Left(L[i][2])]
        /\ (status = "none" => Consumed = Len(L))

C2_Witness ==
    /\ op = "left_outer" /\ status = "none"
    /\ Len(out) = 3
    /\ \E i, j \in 1..Len(out) : out[i].tag = "Left" /\ out[j].tag = "Both"

\* The elements of a finished right-outer (or full-outer) run that carry right key k.
BothOf(k) == {i \in 1..Len(out) : out[i].tag = "Both" /\ KeyOfLeft(out[i].l) = k}
RightOf(k) == {i \in 1..Len(out) : out[i].tag = "Right" /\ out[i].r = RightVals(k)}

\* C3 as stated: in a finished hash_join_right_outer run every distinct right key
\* appears exactly once across the Both and Right arms, and a key that no left
\* item has appears only in a Right element.
C3_Original ==
    (op = "right_outer" /\ status = "none") =>
        \A k \in RightKeys :
            /\ Cardinality(BothOf(k)) + Cardinality(RightOf(k)) = 1
            /\ (k \notin LeftKeys => BothOf(k) = {})

\* C3 amended: in a finished hash_join_right_outer run every distinct right key
\* appears in exactly one of the two arms: in one Both element per left item with
\* that key when there are such items, and in exactly one Right element when
\* there are none.
C3_HashRightOuterKeys ==
    (op = "right_outer" /\ status = "none") =>
        \A k \in RightKeys :
            /\ Cardinality(BothOf(k)) = LeftCount(k)
            /\ Cardinality(RightOf(k)) = IF k \in LeftKeys THEN 0 ELSE 1

C3_Witness ==
    /\ op = "right_outer" /\ status = "none"
    /\ \E k \in RightKeys : LeftCount(k) = 2
    /\ UnmatchedKeys # {}

\* C4: the output of hash_join_right_outer is Both(lv, list) for exactly the left
\* items read whose key occurs on the right, in left order, never Left, followed
\* (only once the left input is exhausted) by one Right(list) for each distinct
\* right key that no left item had.
C4_HashRightOuter ==
    op = "right_outer" =>
        LET nb == Len(MatchedLeft)
            rest == {out[i] : i \in (nb + 1)..Len(out)}
        IN  /\ Len(out) >= nb
            /\ SubSeq(out, 1, nb) = [i \in 1..nb |->
                    Both(MatchedLeft[i][2], RightVals(MatchedLeft[i][1]))]
            /\ rest \subseteq {Right(l) : l \in UnmatchedLists}
            /\ Cardinality(rest) = Len(out) - nb
            /\ (Len(out) > nb => Consumed = Len(L))
            /\ (status = "none" => /\ Consumed = Len(L)
                                   /\ Len(out) = nb + Cardinality(UnmatchedKeys))

C4_Witness ==
    /\ op = "right_outer" /\ status = "none"
    /\ LeftKeys \ RightKeys # {}
    /\ UnmatchedKeys # {}
    /\ \E i \in 1..Len(out) : out[i].tag = "Both"

\* C5: hash_join_right_excl returns exactly one element per distinct right key
\* that no left item has, the list of the right values with that key in right
\* order, nothing for the other keys, and nothing before the whole left input
\* has been read.
C5_HashRightExcl ==
    op = "right_excl" =>
        /\ {out[i] : i \in 1..Len(out)} \subseteq UnmatchedLists
        /\ Cardinality({out[i] : i \in 1..Len(out)}) = Len(out)
        /\ (out # <<>> => Consumed = Len(L))
        /\ (status = "none" => /\ Consumed = Len(L)
                               /\ Len(out) = Cardinality(UnmatchedKeys))

C5_Witness ==
    /\ op = "right_excl" /\ status = "none"
    /\ Len(out) = 2
    /\ LeftKeys \cap RightKeys # {}

\* C6: the output of hash_join_full_outer is one element per left item read, in
\* left order (Both(lv, list) when the key occurs on the right, Left(lv)
\* otherwise), followed by exactly one Right(list) per distinct right key no left
\* item matched; a finished run has |L| + |unmatched distinct right keys| elements.
C6_HashFullOuter ==
    op = "full_outer" =>
        LET rest == {out[i] : i \in (Consumed + 1)..Len(out)}
        IN  /\ Len(out) >= Consumed
            /\ SubSeq(out, 1, Consumed) = [i \in 1..Consumed |->
                    IF L[i][1] \in RightKeys
                    THEN Both(L[i][2], RightVals(L[i][1]))
                    ELSE Left(L[i][2])]
            /\ rest \subseteq {Right(l) : l \in UnmatchedLists}
            /\ Cardinality(rest) = Len(out) - Consumed
            /\ (Len(out) > Consumed => Consumed = Len(L))
            /\ (status = "none" => Len(out) = Len(L) + Cardinality(UnmatchedKeys))

C6_Witness ==
    /\ op = "full_outer" /\ status = "none"
    /\ \E i, j, k \in 1..Len(out) :
         out[i].tag = "Left" /\ out[j].tag = "Both" /\ out[k].tag = "Right"

\* C7: hash_join_left_excl returns exactly the payloads of the left items read
\* whose key occurs nowhere on the right, in left order and with the left input's
\* multiplicity.
C7_HashLeftExcl ==
    op = "left_excl" =>
        LET u == SelectSeq(ConsumedLeft, LAMBDA x : x[1] \notin RightKeys)
        IN  /\ out = [i \in 1..Len(u) |-> u[i][2]]
            /\ (status = "none" => Consumed = Len(L))

C7_Witness ==
    /\ op = "left_excl" /\ status = "none"
    /\ Len(L) = 3 /\ Len(out) = 2 /\ R # <<>>
    /\ KeyOfLeft(out[1]) = KeyOfLeft(out[2])

\* C8: in inner, left-outer, right-outer and full-outer every match of a left
\* item with key k returns the complete list of the right values with key k in
\* right order, also when an earlier left item had the same key, and as long as
\* the map is in place the list stored for each key is that same list.
C8_RightListVerbatim ==
    /\ op = "inner" =>
        /\ DOMAIN map = RightKeys
        /\ \A k \in DOMAIN map : map[k] = RightVals(k)
        /\ \A i \in 1..Len(out) : out[i][2] = RightVals(KeyOfLeft(out[i][1]))
    /\ op = "left_outer" =>
        /\ DOMAIN map = RightKeys
        /\ \A k \in DOMAIN map : map[k] = RightVals(k)
    /\ op \in {"right_outer", "full_outer"} =>
        /\ ~IsSome(excl_iter) =>
                /\ DOMAIN map = RightKeys
                /\ \A k \in DOMAIN map : map[k][1] = RightVals(k)
        /\ IsSome(excl_iter) =>
                \A i \in 1..Len(Unwrap(excl_iter).items) :
                    LET e == Unwrap(excl_iter).items[i] IN e[2][1] = RightVals(e[1])
    /\ op \in {"left_outer", "right_outer", "full_outer"} =>
        \A i \in 1..Len(out) :
            out[i].tag = "Both" => out[i].r = RightVals(KeyOfLeft(out[i].l))

C8_Witness ==
    /\ op = "full_outer"
    /\ \E i, j \in 1..Len(out) :
         /\ i < j
         /\ out[i].tag = "Both" /\ out[j].tag = "Both"
         /\ KeyOfLeft(out[i].l) = KeyOfLeft(out[j].l)
         /\ Len(out[j].r) = 2

\* C9: in hash_join_right_outer and hash_join_full_outer the Both and Left
\* elements appear in the order of the left items they came from, and no Both or
\* Left element is returned after a Right element.
C9_LeftOrderThenRight ==
    op \in {"right_outer", "full_outer"} =>
        \A i, j \in 1..Len(out) :
            i < j =>
                /\ out[i].tag = "Right" => out[j].tag = "Right"
                /\ (out[i].tag # "Right" /\ out[j].tag # "Right") => out[i].l[2] < out[j].l[2]

C9_Witness ==
    /\ op \in {"right_outer", "full_outer"}
    /\ Len(out) = 4
    /\ out[1].tag = "Both" /\ out[2].tag = "Both"
    /\ out[3].tag = "Right" /\ out[4].tag = "Right"

\* C10: every constructor reads the right input to exhaustion: the right
\* iterator is read only by the step that constructs the operator, which leaves
\* it exhausted, before any read of the left input and any output, and it is
\* never read afterwards.
C10_RightDrainedAtConstruction ==
    /\ [](op # "none" => (right.items = <<>> /\ right.calls = Len(R) + 1))
    /\ [][right' # right =>
            /\ op = "none" /\ op' # "none"
            /\ status = "new" /\ out = <<>> /\ left = Iter(L)
            /\ left' = left /\ out' = out]_vars

C10_Witness ==
    /\ op = "right_excl"
    /\ Len(R) >= 2
    /\ right.calls = Len(R) + 1
    /\ out # <<>>

\* The left items the last next() call read, by position: first..last, the call
\* having made left.calls calls of left.next(), the last of which returned None
\* when sawNone.
CallFirst(sawNone) == Consumed - left.calls + (IF sawNone THEN 2 ELSE 1)

\* Whether the last next() call got None from left.next(), and the number of
\* left elements it read.
CallSawNone ==
    IF op \in {"inner", "left_excl", "left_outer"} THEN status = "none"
    ELSE IsSome(excl_iter) /\ left.calls >= 1
CallRead == left.calls - (IF CallSawNone THEN 1 ELSE 0)

\* C11 as stated: every call of next(), in each of the six hash operators, reads
\* exactly one element from the left input; checked in its weakest reading, that
\* no call reads more than one (a call at the end of the input may read none).
C11_Original ==
    (op # "none" /\ status # "new") => CallRead <= 1

\* C11 amended: the left input is read lazily, never before the first next(),
\* and by each call only as far as the call needs: left_outer reads exactly one
\* element per call and full_outer one per call while streaming (none when
\* draining); a call of inner, left_excl or right_outer reads up to the first
\* left item that produces an element, every item before it in the same call
\* producing none; right_excl reads the whole left input in its first call.
C11_LeftLazy ==
    /\ status = "new" => left = Iter(L)
    /\ (op = "left_outer" /\ status # "new") => left.calls = 1
    /\ (op = "full_outer" /\ status # "new") =>
        /\ left.calls \in {0, 1}
        /\ ~IsSome(excl_iter) => left.calls = 1
        /\ left.calls = 0 => left.items = <<>>
    /\ (op \in {"inner", "left_excl"} /\ status # "new") =>
        LET produces(i) == IF op = "inner" THEN L[i][1] \in RightKeys
                           ELSE L[i][1] \notin RightKeys
        IN  /\ left.calls >= 1
            /\ status = "some" =>
                /\ produces(Consumed)
                /\ \A i \in CallFirst(FALSE)..(Consumed - 1) : ~produces(i)
            /\ status = "none" =>
                /\ Consumed = Len(L)
                /\ \A i \in CallFirst(TRUE)..Consumed : ~produces(i)
    /\ (op = "right_outer" /\ status # "new") =>
        /\ ~IsSome(excl_iter) =>
                /\ left.calls >= 1 /\ status = "some"
                /\ L[Consumed][1] \in RightKeys
                /\ \A i \in CallFirst(FALSE)..(Consumed - 1) : L[i][1] \notin RightKeys
        /\ IsSome(excl_iter) =>
                /\ Consumed = Len(L)
                /\ left.calls >= 1 =>
                        \A i \in CallFirst(TRUE)..Consumed : L[i][1] \notin RightKeys
    /\ (op = "right_excl" /\ status # "new") =>
        /\ IsSome(excl_iter) /\ Consumed = Len(L)
        /\ left.calls \in {0, Len(L) + 1}

C11_Witness ==
    /\ op = "right_outer" /\ status = "some"
    /\ ~IsSome(excl_iter)
    /\ left.calls = 3

\* ------------------------------------------------------------- merge claims
\* The inputs are strictly ascending under cmp: each key at most once per side.
StrictlyAscending(S) == \A i \in 1..(Len(S) - 1) : S[i][1] < S[i + 1][1]
Grouped == StrictlyAscending(L) /\ StrictlyAscending(R)

IsPrefix(s, t) == Len(s) <= Len(t) /\ s = SubSeq(t, 1, Len(s))

\* The item of a strictly ascending input that has key k.
ItemOf(S, k) == S[CHOOSE i \in 1..Len(S) : S[i][1] = k]

\* The left items that have a partner on the right, and those that have none.
LeftPaired == SelectSeq(L, LAMBDA l : l[1] \in RightKeys)
LeftAlone == SelectSeq(L, LAMBDA l : l[1] \notin RightKeys)

\* C12: on strictly ascending inputs merge_join_inner_by emits exactly the
\* pairs (l, r) of items with equal keys, one per key present on both sides, in
\* ascending key order (the order of the left input); every item whose key is
\* on one side only is dropped.  While the operator runs its output is a
\* prefix of that sequence, and at exhaustion it is the whole of it.
C12_MergeInner ==
    (op = "merge_inner" /\ Grouped) =>
        LET expected == [n \in 1..Len(LeftPaired) |->
                            <<LeftPaired[n], ItemOf(R, LeftPaired[n][1])>>]
        IN  /\ IsPrefix(out, expected)
            /\ status = "none" => out = expected

C12_Witness ==
    /\ op = "merge_inner" /\ Grouped /\ status = "none"
    /\ Len(out) = 2
    /\ LeftAlone # <<>>

\* C13: on strictly ascending inputs merge_join_left_outer_by emits every left
\* item exactly once, in left order: as Both(l, r) when the right side has an
\* item r with the same key, as Left(l) otherwise, the left items remaining
\* after the right side is exhausted included; right items without a left
\* partner are dropped and no Right is emitted.
C13_MergeLeftOuter ==
    (op = "merge_left_outer" /\ Grouped) =>
        LET expected == [n \in 1..Len(L) |->
                            IF L[n][1] \in RightKeys
                            THEN Both(L[n], ItemOf(R, L[n][1]))
                            ELSE Left(L[n])]
        IN  /\ IsPrefix(out, expected)
            /\ status = "none" => out = expected
            /\ \A i \in 1..Len(out) : out[i].tag # "Right"

C13_Witness ==
    /\ op = "merge_left_outer" /\ Grouped /\ status = "none"
    /\ Len(out) = 2 /\ out[1].tag = "Both" /\ out[2].tag = "Left"
    /\ fused = Some("Less")
    /\ RightKeys \ LeftKeys # {}

\* The keys of a set in ascending order.
RECURSIVE Ascending(_)
Ascending(K) ==
    IF K = {} THEN <<>>
    ELSE LET m == CHOOSE x \in K : \A y \in K : x <= y IN <<m>> \o Ascending(K \ {m})

\* C14: on strictly ascending inputs merge_join_full_outer_by puts every left
\* item and every right item in exactly one output element, in ascending key
\* order: Both(l, r) for a key on both sides, Left(l) for a key on the left
\* only, Right(r) for a key on the right only; once one side is exhausted the
\* rest of the other side is emitted entirely as Left (resp. Right).
C14_MergeFullOuter ==
    (op = "merge_full_outer" /\ Grouped) =>
        LET ks == Ascending(LeftKeys \cup RightKeys)
            expected == [n \in 1..Len(ks) |->
                            IF ks[n] \in LeftKeys /\ ks[n] \in RightKeys
                            THEN Both(ItemOf(L, ks[n]), ItemOf(R, ks[n]))
                            ELSE IF ks[n] \in LeftKeys THEN Left(ItemOf(L, ks[n]))
                            ELSE Right(ItemOf(R, ks[n]))]
        IN  /\ IsPrefix(out, expected)
            /\ status = "none" => out = expected
            /\ IsSome(fused) =>
                  \A i \in (Len(out) - (IF status = "some" THEN 1 ELSE 0) + 1)..Len(out) :
                      out[i].tag = (IF fused = Some("Less") THEN "Left" ELSE "Right")

C14_Witness ==
    /\ op = "merge_full_outer" /\ Grouped /\ status = "none"
    /\ Len(out) = 3
    /\ out[1].tag = "Left" /\ out[2].tag = "Both" /\ out[3].tag = "Right"
    /\ fused = Some("Greater")

\* C15: on strictly ascending inputs merge_join_left_excl_by emits exactly the
\* left items whose key does not occur on the right, in left order; on Equal
\* both items are dropped, and the left items remaining when the right side is
\* exhausted are all emitted.
C15_MergeLeftExcl ==
    (op = "merge_left_excl" /\ Grouped) =>
        /\ IsPrefix(out, LeftAlone)
        /\ status = "none" => out = LeftAlone

C15_Witness ==
    /\ op = "merge_left_excl" /\ Grouped /\ status = "none"
    /\ Len(out) = 2
    /\ LeftPaired # <<>>
    /\ fused = Some("Less")

\* The inputs are ascending under cmp; a key may repeat.
IsAscending(S) == \A i \in 1..(Len(S) - 1) : S[i][1] <= S[i + 1][1]

MergeOps == {"merge_inner", "merge_left_excl", "merge_left_outer", "merge_full_outer"}

\* The key of an emitted element: of the pair's left item (inner), of the item
\* (left-excl), of the item the EitherOrBoth carries (its left item for Both).
OutKey(e) ==
    CASE op = "merge_inner" -> e[1][1]
      [] op = "merge_left_excl" -> e[1]
      [] OTHER -> IF e.tag = "Right" THEN e.r[1] ELSE e.l[1]

\* C16: for each of the four merge operators, on inputs that are ascending
\* under cmp, the keys of the emitted elements are non-decreasing under cmp.
C16_MergeMonotone ==
    (op \in MergeOps /\ IsAscending(L) /\ IsAscending(R)) =>
        \A i \in 1..(Len(out) - 1) : Ord_cmp(OutKey(out[i]), OutKey(out[i + 1])) # "Greater"

C16_Witness ==
    /\ op = "merge_full_outer" /\ IsAscending(L) /\ IsAscending(R) /\ ~Grouped
    /\ status = "none"
    /\ Len(out) = 4
    /\ \E i \in 1..3 : out[i].tag = "Right" /\ OutKey(out[i]) < OutKey(out[i + 1])
    /\ \E i \in 1..3 : out[i].tag = "Left" /\ OutKey(out[i]) = OutKey(out[i + 1])

\* The number of items the two cursors still hold.
RestTotal == Len(Rest(left)) + Len(Rest(right))

\* C17: for each of the four merge operators, whatever the inputs and whatever
\* the comparator answers, every next() call returns, with Some or with None;
\* a call that returns Some has taken at least one item out of the cursors and
\* emits one element, so that at most |L| + |R| elements are emitted and, the
\* inputs being finite, a call signals exhaustion after at most |L| + |R|
\* calls that did not; the comparator runs at most once per item held.
C17_MergeTerminates ==
    /\ [](op \in MergeOps =>
            /\ status \in {"new", "some", "none"}
            /\ Len(out) + RestTotal <= Len(L) + Len(R)
            /\ cmp.calls <= Len(L) + Len(R))
    /\ [][(op \in MergeOps) =>
            \/ status' = "none" /\ out' = out
            \/ /\ status' = "some"
               /\ Len(out') = Len(out) + 1
               /\ RestTotal' < RestTotal
               /\ cmp'.calls <= RestTotal]_vars

C17_Witness ==
    /\ op = "merge_full_outer" /\ status = "none"
    /\ Len(L) = MaxLeft /\ Len(R) = MaxRight
    /\ Len(out) = Len(L) + Len(R)
    /\ \E i \in 1..(Len(out) - 1) : out[i].tag = "Right" /\ out[i + 1].tag = "Left"

\* Whether an item of the left (right) input occurs in an emitted element.
LeftAppears(l) ==
    \E n \in 1..Len(out) :
        CASE op = "merge_inner" -> out[n][1] = l
          [] op = "merge_left_excl" -> out[n] = l
          [] OTHER -> out[n].tag \in {"Left", "Both"} /\ out[n].l = l

RightAppears(r) ==
    \E n \in 1..Len(out) :
        CASE op = "merge_inner" -> out[n][2] = r
          [] op = "merge_left_excl" -> FALSE
          [] OTHER -> out[n].tag \in {"Right", "Both"} /\ out[n].r = r

\* How many items of S have key k, and the rank of S[i] among the items of S
\* that have its key.
KeyCount(S, k) == Cardinality({j \in 1..Len(S) : S[j][1] = k})
Rank(S, i) == Cardinality({j \in 1..i : S[j][1] = S[i][1]})

\* C18 as stated: on ascending inputs where a side repeats a key k that the
\* other side holds (once), the items of that side with key k after the first
\* appear in no output element, for every merge operator.
C18_Original ==
    (op \in MergeOps /\ IsAscending(L) /\ IsAscending(R)) =>
        /\ \A i \in 1..Len(L) :
              (Rank(L, i) >= 2 /\ KeyCount(R, L[i][1]) = 1) => ~LeftAppears(L[i])
        /\ \A j \in 1..Len(R) :
              (Rank(R, j) >= 2 /\ KeyCount(L, R[j][1]) = 1) => ~RightAppears(R[j])

\* The item of the other side that S[i] is matched with: the one with the same
\* key and the same rank, if there is one.
HasPartner(S, i, T) == Rank(S, i) <= KeyCount(T, S[i][1])
Partner(S, i, T) == T[CHOOSE j \in 1..Len(T) : T[j][1] = S[i][1] /\ Rank(T, j) = Rank(S, i)]

LeftIdx(P(_)) == SelectSeq([i \in 1..Len(L) |-> i], P)

\* C18 amended: on ascending inputs with repeated keys every merge operator
\* matches an item with key k only with the item of the same rank among the
\* other side's items with key k; an item beyond the other side's count is
\* not matched and is handled as an item whose key the other side lacks:
\* inner drops it, left-excl and left-outer emit it when it is a left item
\* (left-outer as Left) and drop it when it is a right item, full-outer emits
\* it as Left or Right.
C18_DuplicatesUnmatched ==
    (op \in MergeOps /\ IsAscending(L) /\ IsAscending(R)) =>
        LET paired == LeftIdx(LAMBDA i : HasPartner(L, i, R))
            alone == LeftIdx(LAMBDA i : ~HasPartner(L, i, R))
            inner == [n \in 1..Len(paired) |-> <<L[paired[n]], Partner(L, paired[n], R)>>]
            excl == [n \in 1..Len(alone) |-> L[alone[n]]]
            outer == [i \in 1..Len(L) |->
                         IF HasPartner(L, i, R) THEN Both(L[i], Partner(L, i, R))
                         ELSE Left(L[i])]
            full == {outer[i] : i \in 1..Len(L)}
                        \cup {Right(R[j]) : j \in {x \in 1..Len(R) : ~HasPartner(R, x, L)}}
        IN  CASE op = "merge_inner" ->
                    IsPrefix(out, inner) /\ (status = "none" => out = inner)
              [] op = "merge_left_excl" ->
                    IsPrefix(out, excl) /\ (status = "none" => out = excl)
              [] op = "merge_left_outer" ->
                    IsPrefix(out, outer) /\ (status = "none" => out = outer)
              [] op = "merge_full_outer" ->
                    /\ {out[n] : n \in 1..Len(out)} \subseteq full
                    /\ Cardinality({out[n] : n \in 1..Len(out)}) = Len(out)
                    /\ status = "none" => Len(out) = Cardinality(full)

C18_Witness ==
    /\ op = "merge_left_excl" /\ IsAscending(L) /\ IsAscending(R)
    /\ status = "none"
    /\ \E i \in 1..Len(L) :
          /\ Rank(L, i) >= 2 /\ KeyCount(R, L[i][1]) = 1
          /\ LeftAppears(L[i])

\* ------------------------------------------------------------ hash duality
RECURSIVE Flatten(_)
Flatten(ss) == IF ss = <<>> THEN <<>> ELSE Head(ss) \o Flatten(Tail(ss))

\* How many times x occurs in the sequence s.
Occurs(s, x) == Cardinality({i \in 1..Len(s) : s[i] = x})

\* C19: hash_join_right_excl(L, R) and hash_join_left_excl(R, L) return the
\* same right-side records with the same multiplicities: every record in the
\* lists right_excl has returned is returned by left_excl on the exchanged
\* inputs at least as often, and at exhaustion each record occurs in both
\* outputs the same number of times.
C19_HashExclDuality ==
    op = "right_excl" =>
        LET dual == hash_join_left_excl(R, L)
            flat == Flatten(out)
            recs == {R[j][2] : j \in 1..Len(R)}
        IN  /\ \A i \in 1..Len(flat) : flat[i] \in recs
            /\ \A x \in recs : Occurs(flat, x) <= Occurs(dual, x)
            /\ status = "none" => \A x \in recs : Occurs(flat, x) = Occurs(dual, x)

C19_Witness ==
    /\ op = "right_excl" /\ status = "none"
    /\ LeftKeys \cap RightKeys # {}
    /\ \E i \in 1..Len(out) : Len(out[i]) = 2
    /\ Len(hash_join_left_excl(R, L)) = 2

\* ------------------------------------------------------------- util claims
\* C20: whenever fields_to_idx returns Ok(plan), the plan is canonical: it has
\* at least one triple, its source indices are sorted strictly ascending (so
\* pairwise distinct), and its output positions are exactly 0..|plan|-1.
C20_PlanCanonical ==
    res.kind = "Ok" =>
        LET plan == res.idx IN
        /\ Len(plan) >= 1
        /\ \A i \in 1..(Len(plan) - 1) : plan[i][1] < plan[i + 1][1]
        /\ {plan[i][2] : i \in 1..Len(plan)} = 0..(Len(plan) - 1)
        /\ Cardinality({plan[i][2] : i \in 1..Len(plan)}) = Len(plan)
        /\ Len(plan) = Len(f)

C20_Witness ==
    /\ res.kind = "Ok"
    /\ Len(res.idx) = 3
    /\ res.idx[1][2] = 2 /\ res.idx[1][3] = "I"
    /\ res.idx[3][2] = 0

\* The grammar field := UINT ('-' ('i'|'u'))?, read off the token itself: the
\* length of its leading run of digits, the index the digits spell, its tag.
UintLen(tok) ==
    IF tok = <<>> \/ ~IsDigit(tok[1]) THEN 0
    ELSE CHOOSE n \in 1..Len(tok) :
            /\ \A i \in 1..n : IsDigit(tok[i])
            /\ (n < Len(tok) => ~IsDigit(tok[n + 1]))
Suffix(tok) == SubSeq(tok, UintLen(tok) + 1, Len(tok))
MatchesGrammar(tok) ==
    UintLen(tok) >= 1 /\ Suffix(tok) \in {<<>>, <<"-", "i">>, <<"-", "u">>}
FieldIndex(tok) == DecimalVal(SubSeq(tok, 1, UintLen(tok)), 0)
FieldTag(tok) ==
    CASE Suffix(tok) = <<"-", "i">> -> "I"
      [] Suffix(tok) = <<"-", "u">> -> "U"
      [] OTHER -> "S"

\* A well-formed list: non-empty, every token in the grammar with a 1-based
\* index (at least 1), the indices pairwise distinct.
WellFormedList ==
    /\ f # <<>>
    /\ \A p \in 1..Len(f) : MatchesGrammar(f[p]) /\ FieldIndex(f[p]) >= 1
    /\ \A p, q \in 1..Len(f) : FieldIndex(f[p]) = FieldIndex(f[q]) => p = q

SameIndexTwice ==
    \E p, q \in 1..Len(f) :
        /\ p # q
        /\ UintLen(f[p]) >= 1 /\ UintLen(f[q]) >= 1
        /\ FieldIndex(f[p]) = FieldIndex(f[q])

IsValidationError(r) == r.kind = "Err" /\ r.error.kind = "ValueValidation"

\* C22: fields_to_idx returns a validation error, and no plan, whenever two
\* fields of the list have the same index (whatever their type tags) or the
\* list is empty.
C22_DuplicateOrEmptyRejected ==
    (res.kind # "Idle" /\ (f = <<>> \/ SameIndexTwice)) => IsValidationError(res)

\* C23: fields_to_idx accepts a field token only if it matches the grammar
\* UINT ('-' ('i'|'u'))?; a list with a token that does not match (non-numeric
\* index, unknown tag, empty tag as in '1-', extra suffixes as in '3-i-x') is
\* not accepted: no plan is returned for it.
C23_OnlyGrammarAccepted ==
    res.kind = "Ok" => \A p \in 1..Len(f) : MatchesGrammar(f[p])

\* -------------------------------------------------------- extract_key claims
\* The fields of the record, and what a field is worth under a tag: the
\* number a token spells under I, under U if it has no sign '-', the token
\* itself under S; nothing where the token is no such number.
Fields == SplitStr(record, field_sep)
NumberOf(tok) ==
    CASE tok = <<"2">> -> 2
      [] tok = <<"1", "2">> -> 12
      [] tok = <<"-", "1">> -> 0 - 1
AtomOf(tok, tag) ==
    CASE tag = "S" -> Some(<<"S", tok>>)
      [] tag = "I" /\ tok \in RecTokens -> Some(<<"I", NumberOf(tok)>>)
      [] tag = "U" /\ tok \in RecTokens \ {<<"-", "1">>} -> Some(<<"U", NumberOf(tok)>>)
      [] OTHER -> None

EnoughFields == \A i \in 1..Len(key_idx) : key_idx[i][1] < Len(Fields)
AllParse ==
    \A i \in 1..Len(key_idx) :
        key_idx[i][1] < Len(Fields) => IsSome(AtomOf(Fields[key_idx[i][1] + 1], key_idx[i][3]))

\* C24: for a record with enough fields, whose planned fields parse under
\* their tags, and a canonical plan, extract_key returns a key of length
\* |plan| whose element at index pos is, for each triple (src, pos, tag), the
\* record's src-th field (0-based, split on the field separator) parsed per
\* tag; record 'a;b;1' with plan [(0,1,S),(2,0,I)] gives [I(1), S('a')].
C24_ExtractKeyPlaces ==
    /\ (keys.kind # "Idle" /\ EnoughFields /\ AllParse) =>
          /\ keys.kind = "Ok"
          /\ keys.vec.len = Len(key_idx)
          /\ \A i \in 1..Len(key_idx) :
                keys.vec.buf[key_idx[i][2]] =
                    Unwrap(AtomOf(Fields[key_idx[i][1] + 1], key_idx[i][3]))
    /\ keys.kind # "Idle" =>
          LET e == extract_key(<<"a", ";", "b", ";", "1">>, <<";">>,
                               <<<<0, 1, "S">>, <<2, 0, "I">>>>)
          IN  e.kind = "Ok" /\ Elems(e.vec) = <<VarI(1), VarS(<<"a">>)>>

C24_Witness ==
    /\ keys.kind = "Ok"
    /\ key_idx = <<<<0, 1, "S">>, <<1, 0, "I">>>>
    /\ Elems(keys.vec) = <<VarI(0 - 1), VarS(<<"1", "2">>)>>

\* The abort of util.rs:192-195, and the walk coming to its end: no planned
\* field that the record has fails to parse.
IsExceeds(r) ==
    /\ r.kind = "Panic"
    /\ r.msg = "Error during the key extraction: the key index exceeds the number of fields in the record!"
Placed == Cardinality({i \in 1..Len(key_idx) : key_idx[i][1] < Len(Fields)})

\* C25: extract_key aborts with the key-index message, returning no key,
\* exactly when the record has fewer fields than the largest source index of
\* the plan requires (the walk having come to its end), that is when the
\* number of placed atoms differs from the plan length; a record with enough
\* fields never triggers this abort, and a record with too few never yields a
\* key.
C25_AbortsWhenTooShort ==
    keys.kind # "Idle" =>
        /\ AllParse => (IsExceeds(keys) <=> ~EnoughFields)
        /\ IsExceeds(keys) => keys.vec.len = Placed /\ keys.vec.len # Len(key_idx)
        /\ EnoughFields => ~IsExceeds(keys)
        /\ ~EnoughFields => keys.kind = "Panic"

C25_Witness ==
    /\ IsExceeds(keys)
    /\ Len(Fields) = 1
    /\ Len(key_idx) = 2
    /\ keys.vec.len = 1

\* The order the fields of two records stand in under a tag: as numbers under
\* I and U, as byte strings under S; and the first output position at which
\* two records differ under the plan.
ByteLess(a, b) ==
    \E i \in 1..Len(b) :
        /\ i <= Len(a) + 1
        /\ \A j \in 1..(i - 1) : a[j] = b[j]
        /\ i = Len(a) + 1 \/ Byte(a[i]) < Byte(b[i])
FieldOrder(s, t, tag) ==
    IF tag = "S"
    THEN IF ByteLess(s, t) THEN "Less" ELSE IF s = t THEN "Equal" ELSE "Greater"
    ELSE IF NumberOf(s) < NumberOf(t) THEN "Less"
         ELSE IF NumberOf(s) = NumberOf(t) THEN "Equal" ELSE "Greater"
TripleAt(pos) == key_idx[CHOOSE i \in 1..Len(key_idx) : key_idx[i][2] = pos]
OrderAt(rec, pos) ==
    LET t == TripleAt(pos)
    IN  FieldOrder(Fields[t[1] + 1], SplitStr(rec, field_sep)[t[1] + 1], t[3])
KeyOrder(rec) ==
    LET differ == {pos \in 0..(Len(key_idx) - 1) : OrderAt(rec, pos) # "Equal"}
    IN  IF differ = {} THEN "Equal"
        ELSE OrderAt(rec, CHOOSE pos \in differ : \A q \in differ : pos <= q)

\* C26: keys produced by extract_key compare lexicographically over the
\* components in output-position order, numerically on U and I components and
\* byte-lexicographically on S components: the key of a record whose U field
\* is 20 is greater than that of one whose field is 2, also when that
\* component is not the first, and 2 < 12 under U whereas '12' < '2' under S.
C26_KeyOrder ==
    keys.kind = "Ok" =>
        /\ \A rec \in Records :
              LET k == extract_key(rec, field_sep, key_idx)
              IN  k.kind = "Ok" => Vec_cmp(Elems(keys.vec), Elems(k.vec)) = KeyOrder(rec)
        /\ LET rec0 == <<"2", "0", ";", "a", ";", "b">>
               rec1 == <<"2", ";", "a", ";", "b">>
               single == <<<<0, 0, "U">>>>
               multiple == <<<<0, 1, "U">>, <<2, 0, "S">>>>
               key(r, p) == Elems(extract_key(r, <<";">>, p).vec)
           IN  /\ Vec_cmp(key(rec0, single), key(rec1, single)) = "Greater"
               /\ Vec_cmp(key(rec0, multiple), key(rec1, multiple)) = "Greater"
               /\ Vec_cmp(key(rec0, single), key(rec0, single)) = "Equal"
               /\ Vec_cmp(key(rec0, multiple), key(rec0, multiple)) = "Equal"
        /\ Vec_cmp(<<VarU(2)>>, <<VarU(12)>>) = "Less"
        /\ Vec_cmp(<<VarS(<<"1", "2">>)>>, <<VarS(<<"2">>)>>) = "Less"

\* The key [S('2'), U(2)] compared with that of '2;12' under the same plan:
\* equal in the first component, less in the second.
C26_Witness ==
    /\ keys.kind = "Ok"
    /\ key_idx = <<<<0, 1, "U">>, <<1, 0, "S">>>>
    /\ record = <<"2", ";", "2">>
    /\ field_sep = <<";">>
    /\ Vec_cmp(Elems(keys.vec),
               Elems(extract_key(<<"1", "2", ";", "2">>, field_sep, key_idx).vec)) = "Less"
    /\ Vec_cmp(Elems(keys.vec),
               Elems(extract_key(<<"2", ";", "1", "2">>, field_sep, key_idx).vec)) = "Greater"

\* A record that agrees with the extracted one on every field named in the
\* plan: it has the field when the extracted record has it, with the same text.
AgreesOnPlan(rec) ==
    LET other == SplitStr(rec, field_sep)
    IN  \A i \in 1..Len(key_idx) :
            LET src == key_idx[i][1]
            IN  /\ src < Len(other) <=> src < Len(Fields)
                /\ src < Len(Fields) => other[src + 1] = Fields[src + 1]

\* C27: extract_key is a function of the planned fields alone: two records
\* that agree on every field named in the plan, extracted with the same
\* separator and plan, yield equal keys, component by component, whatever
\* their other fields contain (and one yields no key when the other yields
\* none).
C27_PlannedFieldsDecide ==
    keys.kind # "Idle" =>
        \A rec \in Records :
            AgreesOnPlan(rec) =>
                LET k == extract_key(rec, field_sep, key_idx)
                IN  /\ k.kind = keys.kind
                    /\ keys.kind = "Ok" =>
                          /\ k.vec.len = keys.vec.len
                          /\ \A n \in 1..keys.vec.len :
                                Elems(k.vec)[n] = Elems(keys.vec)[n]

C27_Witness ==
    /\ keys.kind = "Ok"
    /\ record = <<"2", ";", "1", "2">>
    /\ field_sep = <<";">>
    /\ key_idx = <<<<0, 0, "U">>>>
    /\ AgreesOnPlan(<<"2", ";", "-", "1">>)
    /\ AgreesOnPlan(<<"2">>)
    /\ Elems(extract_key(<<"2">>, field_sep, key_idx).vec) = <<VarU(2)>>

AllStrings == \A i \in 1..Len(key_idx) : key_idx[i][3] = "S"

\* C28: for a plan in which every field has the String tag, each atom of the
\* extracted key is a String atom holding, unchanged, the field of the record
\* at the plan's source index.
C28_StringAtomsUnchanged ==
    (keys.kind # "Idle" /\ AllStrings /\ EnoughFields) =>
        /\ keys.kind = "Ok"
        /\ \A i \in 1..Len(key_idx) :
              LET atom == Elems(keys.vec)[key_idx[i][2] + 1]
              IN  /\ atom[1] = "S"
                  /\ atom[2] = Fields[key_idx[i][1] + 1]

C28_Witness ==
    /\ keys.kind = "Ok"
    /\ AllStrings
    /\ record = <<"-", "1", ";", "1", "2">>
    /\ field_sep = <<";">>
    /\ Elems(keys.vec) = <<VarS(<<"1", "2">>), VarS(<<"-", "1">>)>>

\* ---------------------------------------------------------- front-end claims
\* The records of a file, the number of fields of its first record (none
\* for an empty file), and n field separators.
RecordsOf(file) == {file[i] : i \in 1..Len(file)}
FirstArity(file) ==
    IF file = <<>> THEN 0
    ELSE Cardinality({i \in 1..Len(file[1]) : file[1][i] = ","}) + 1
Separators(n) == [i \in 1..n |-> ","]
OuterModes == {"left-outer", "right-outer", "full-outer"}

\* C29: in both front-ends, in the outer modes, a Left-only emission is
\* written as the left record, then right_arity field separators, then the
\* record separator, and a Right-only emission as left_arity field separators,
\* then the right record, then the record separator, where left_arity and
\* right_arity are the numbers of fields of the first record of FILE1 and of
\* FILE2.
C29_OuterPadding ==
    (stdout.kind = "Ok" /\ args.mode \in OuterModes) =>
        \A n \in 1..Len(stdout.writes) :
            LET w == stdout.writes[n] IN
            /\ w.fn = "write_left" =>
                  /\ w.lv \in RecordsOf(args.file1)
                  /\ w.text = w.lv \o Separators(FirstArity(args.file2)) \o <<"\n">>
            /\ w.fn = "write_right" =>
                  /\ w.rv \in RecordsOf(args.file2)
                  /\ w.text = Separators(FirstArity(args.file1)) \o w.rv \o <<"\n">>

\* C30: in the front-ends, in mode inner and in the matched arm of every
\* outer mode (right-outer of mjoin included, which joins with the inputs
\* exchanged), each matched line is written as the record of FILE1, the field
\* separator, the record of FILE2 and the record separator.
C30_MatchedLine ==
    stdout.kind = "Ok" =>
        \A n \in 1..Len(stdout.writes) :
            LET w == stdout.writes[n] IN
            w.fn = "write_both" =>
                /\ w.lv \in RecordsOf(args.file1)
                /\ w.rv \in RecordsOf(args.file2)
                /\ w.text = w.lv \o <<",">> \o w.rv \o <<"\n">>

\* How the process ends: process::exit and clap's e.exit() write one line to
\* standard error and end with status 1; a panic is not such an end.  A key
\* failure: the second field, 'b', asked for as a u64 (both files have it), or
\* the third field asked of FILE1, whose records have two.
ExitsWithDiagnostic == stdout.kind = "Exit"
Unparseable ==
    /\ args.fields1 = << <<"2", "-", "u">> >>
    /\ args.file1 # <<>> \/ args.file2 # <<>>
TooShort == args.fields1 = << <<"3">> >> /\ args.file1 # <<>>

\* C31: in the front-ends, a key field that does not parse as the tagged
\* integer type, and a record with fewer fields than the plan requires, end
\* the process as the other validation failures do (a bad field list, a file
\* that cannot be read): a diagnostic on standard error and exit status 1.
C31_KeyFailuresExit ==
    (stdout # Idle /\ (Unparseable \/ TooShort)) => ExitsWithDiagnostic

\* The (key, group) items mjoin hands to the merge operator for a file, and
\* such a sequence being strictly ascending by key (so no key comes twice).
GroupsOf(file) == GroupBy(file, fields_to_idx(args.fields1, "release").idx, <<>>)
KeysAscending(groups) ==
    \A i \in 1..Len(groups) : \A j \in 1..Len(groups) :
        i < j => Vec_cmp(groups[i][1], groups[j][1]) = "Less"

\* C32: for every sequence of records mjoin reads from an input file, the
\* (key, group) sequence handed to the merge operator is strictly ascending
\* by key, each key appearing at most once, the front-end having sorted the
\* records before grouping the runs of one key.
C32_GroupsAscending ==
    (args.bin = "mjoin" /\ stdout.kind = "Ok") =>
        /\ KeysAscending(GroupsOf(args.file1))
        /\ KeysAscending(GroupsOf(args.file2))

\* --------------------------------------------------- phases of the hash joins
\* The operators that come back to the right side, and their two phases.
RightRevisiting == op \in {"right_excl", "right_outer", "full_outer"}
Streaming == RightRevisiting /\ ~IsSome(excl_iter)
Draining == RightRevisiting /\ IsSome(excl_iter)

\* The entries the drain iterator has still to visit, their keys, and an
\* unprobed list as the operator returns it.
DrainRest(e) == Unwrap(e).items
DrainKeys(e) == {DrainRest(e)[i][1] : i \in 1..Len(DrainRest(e))}
DrainElem(rvv) == IF op = "right_excl" THEN rvv ELSE Right(rvv)

\* A step of next() in phase Streaming: whether left.next() returned None in
\* it (one call more than items read), and the number of map entries the
\* drain visited in it.
SawLeftEnd == left'.calls = Len(left.items) - Len(left'.items) + 1
VisitedInStep == Unwrap(excl_iter').calls - (IF status' = "none" THEN 1 ELSE 0)

\* The step that enters Draining: the left input is at its end, the map is
\* left empty and all its entries, each once and with its list, are in the
\* drain iterator or were visited by it in this step.
EntersDraining ==
    /\ SawLeftEnd /\ left'.items = <<>>
    /\ map' = EmptyMap
    /\ DrainKeys(excl_iter') \subseteq DOMAIN map
    /\ Cardinality(DrainKeys(excl_iter')) = Len(DrainRest(excl_iter'))
    /\ Len(DrainRest(excl_iter')) + VisitedInStep = Cardinality(DOMAIN map)
    /\ \A i \in 1..Len(DrainRest(excl_iter')) :
          DrainRest(excl_iter')[i][2][1] = map[DrainRest(excl_iter')[i][1]][1]
    /\ status' = "some" =>
          \E k \in DOMAIN map \ DrainKeys(excl_iter') :
              /\ k \notin LeftKeys
              /\ out' = Append(out, DrainElem(map[k][1]))
    /\ status' = "none" => DrainRest(excl_iter') = <<>>

\* A step of next() in phase Draining: the left input and the map are not
\* touched, the drain iterator goes on from where it was, the entries it
\* passes over are the matched ones, and the first unmatched one is returned;
\* the operator is exhausted when the drain iterator is.
DrainStep ==
    LET rest == DrainRest(excl_iter)
        d == Len(rest) - Len(DrainRest(excl_iter'))
    IN  /\ Draining'
        /\ left'.items = left.items /\ left'.calls = 0
        /\ map' = map
        /\ DrainRest(excl_iter') = SubSeq(rest, d + 1, Len(rest))
        /\ status' = "some" =>
              /\ d >= 1
              /\ \A i \in 1..(d - 1) : rest[i][2][2]
              /\ ~rest[d][2][2]
              /\ out' = Append(out, DrainElem(rest[d][2][1]))
        /\ status' = "none" =>
              /\ d = Len(rest)
              /\ \A i \in 1..d : rest[i][2][2]
              /\ out' = out

\* C33: hash_join_right_excl, hash_join_right_outer and hash_join_full_outer
\* start in phase Streaming (excl_iter = None) and enter Draining exactly in
\* the step in which the left input first returns no item; that step moves
\* the whole tagged map into the drain iterator and leaves the map empty; the
\* phase never goes back, the left input is not read in Draining, each map
\* entry is visited at most once, the entries with matched = true are skipped
\* and the operator is exhausted when the drain iterator is empty.
C33_Phases ==
    /\ []((RightRevisiting /\ status = "new") => Streaming)
    /\ [](Draining => (map = EmptyMap /\ left.items = <<>>))
    /\ [][Streaming => ((Draining' <=> SawLeftEnd) /\ (Draining' => EntersDraining))]_vars
    /\ [][Draining => DrainStep]_vars

C33_Witness ==
    /\ op = "full_outer" /\ status = "some"
    /\ Draining
    /\ Len(out) = Len(L) + 1
    /\ Unwrap(excl_iter).calls = 2
    /\ Len(DrainRest(excl_iter)) = 1

\* The keys of the left items read so far.
ConsumedKeys == {L[i][1] : i \in 1..Consumed}

\* C34: in every Streaming state of the three right-revisiting hash operators
\* matched[k] is true if and only if a left item already consumed had key k;
\* a flag that is set is never cleared (nor is it in the entries moved to the
\* drain iterator), and consuming a left item changes neither the set of keys
\* of the map nor any stored list of values.
C34_MatchedFlags ==
    /\ [](Streaming =>
            /\ DOMAIN map = RightKeys
            /\ \A k \in DOMAIN map :
                  /\ map[k][1] = RightVals(k)
                  /\ map[k][2] <=> k \in ConsumedKeys)
    /\ [][(Streaming /\ Streaming') =>
            /\ DOMAIN map' = DOMAIN map
            /\ \A k \in DOMAIN map :
                  /\ map'[k][1] = map[k][1]
                  /\ map[k][2] => map'[k][2]]_vars
    /\ [][(Streaming /\ Draining') =>
            \A i \in 1..Len(DrainRest(excl_iter')) :
                map[DrainRest(excl_iter')[i][1]][2] => DrainRest(excl_iter')[i][2][2]]_vars
    /\ [](Draining =>
            \A i \in 1..Len(DrainRest(excl_iter)) :
                DrainRest(excl_iter)[i][2][2] <=> DrainRest(excl_iter)[i][1] \in LeftKeys)

C34_Witness ==
    /\ op = "right_outer" /\ Streaming
    /\ Consumed = 2 /\ Len(L) = 3
    /\ \E k \in DOMAIN map : map[k][2] /\ Len(map[k][1]) = 2
    /\ \E k \in DOMAIN map : ~map[k][2]

\* ------------------------------------------------- the fused register
\* The merge operators that have the register; a side found exhausted: its
\* peek() returned None (and the None is still set aside).
FusedOps == op \in {"merge_left_excl", "merge_left_outer", "merge_full_outer"}
FoundExhausted(p) == p.peeked = Some(None)

\* The element an operator returns for a left item alone.
LeftElem(l) == IF op = "merge_left_excl" THEN l ELSE Left(l)

\* C35: in merge left-excl, left-outer and full-outer the fused register
\* starts empty, is set at most once and never changes afterwards; it is
\* Less exactly when the right side was found exhausted while the left still
\* had an item, and Greater, in full-outer only, exactly when the left side
\* was found exhausted while the right still had an item; it is never Equal,
\* and once it is set the comparator is not called again.
C35_FusedRegister ==
    /\ []((FusedOps /\ status = "new") => fused = None)
    /\ [](FusedOps =>
            /\ fused \in {None, Some("Less"), Some("Greater")}
            /\ fused = Some("Greater") => op = "merge_full_outer"
            /\ fused = Some("Less") <=> (FoundExhausted(right) /\ ~FoundExhausted(left))
            /\ op = "merge_full_outer" =>
                  (fused = Some("Greater") <=> (FoundExhausted(left) /\ ~FoundExhausted(right))))
    /\ [][(FusedOps /\ IsSome(fused)) => (fused' = fused /\ cmp'.calls = 0)]_vars
    /\ [][(FusedOps /\ ~IsSome(fused) /\ fused' = Some("Less")) =>
            /\ Rest(left) # <<>> /\ Rest(right') = <<>>
            /\ status' = "some"
            /\ out' = Append(out, LeftElem(Rest(left)[Len(Rest(left)) - Len(Rest(left'))]))]_vars
    /\ [][(FusedOps /\ ~IsSome(fused) /\ fused' = Some("Greater")) =>
            /\ Rest(right) # <<>> /\ Rest(left') = <<>>
            /\ status' = "some"
            /\ out' = Append(out, Right(Rest(right)[Len(Rest(right)) - Len(Rest(right'))]))]_vars

C35_Witness ==
    /\ op = "merge_full_outer" /\ status = "some"
    /\ fused = Some("Greater")
    /\ Len(L) = 2 /\ Len(R) = 3
    /\ Rest(right) = <<>>
    /\ cmp.calls = 0

\* ------------------------------------------------------------- exhaustion
\* C36: exhaustion is absorbing: for each of the ten operators over finite
\* inputs, once next() has signalled exhaustion every later call of next()
\* signals exhaustion too and emits no element; the later calls of the three
\* right-revisiting hash operators do not read the left input either.
C36_ExhaustionAbsorbing ==
    /\ [][(op # "none" /\ status = "none") => (status' = "none" /\ out' = out)]_vars
    /\ [][(RightRevisiting /\ status = "none") =>
            (left'.items = left.items /\ left'.calls = 0)]_vars

\* A second call after exhaustion: the first call of right_excl reads the
\* whole left input, and nothing was ever returned.
C36_Witness ==
    /\ op = "right_excl" /\ status = "none"
    /\ out = <<>>
    /\ Len(L) = 2 /\ R # <<>>
    /\ left.calls = 0

\* ------------------------------------------------------ the key vector
\* C37: when extract_key ends, by returning the key or by aborting on a parse
\* failure or on a short record, every slot 0..n-1 of the key vector, n being
\* its length, has been written: no slot inside the length is uninitialised,
\* for every canonical plan, also one whose output positions do not ascend.
C37_NoUninitSlot ==
    keys.kind # "Idle" =>
        \A n \in 0..(keys.vec.len - 1) : keys.vec.buf[n] # Uninit

\* ------------------------------------------------------ 1-based indices
\* A field of the list spells the index 0.
HasIndexZero == \E p \in 1..Len(f) : UintLen(f[p]) >= 1 /\ FieldIndex(f[p]) = 0

\* C38: field indices are 1-based: for every field list fields_to_idx accepts,
\* the source index stored for a field is the written index minus one, which
\* is not negative and not the wrapped maximum; a field index of 0 is rejected
\* with a validation error, and the subtraction u - 1 never underflows, neither
\* by a panic nor by wrapping to the maximum unsigned value.
C38_OneBased ==
    res.kind # "Idle" =>
        /\ res.kind \in {"Ok", "Err"}
        /\ res.kind = "Ok" =>
              \A i \in 1..Len(res.idx) :
                  /\ UintLen(f[res.idx[i][2] + 1]) >= 1 =>
                        res.idx[i][1] = FieldIndex(f[res.idx[i][2] + 1]) - 1
                  /\ res.idx[i][1] >= 0
                  /\ res.idx[i][1] < usize_MAX
        /\ HasIndexZero => IsValidationError(res)

\* ------------------------------------------------------- defensive arms
\* The merge operators with an Equal arm that matches on the pair of next()
\* results.  The arm is entered from a comparator call, made on two peeked
\* items, so both next() take the item set aside; its fallback would return
\* exhaustion with nothing set aside on either side, while every other return
\* of exhaustion leaves a side whose peek() returned None.
EqualArmOps == {"merge_inner", "merge_left_outer", "merge_full_outer"}
MatchedElems == {n \in 1..Len(out) : IF op = "merge_inner" THEN TRUE ELSE out[n].tag = "Both"}

\* C39: the fallback arm of the Equal branch of merge inner, left-outer and
\* full-outer is never taken, for any finite inputs and any comparator:
\* whenever the Equal branch runs both cursors hold an item, so the pair of
\* next() results is (Some, Some) and an element is returned; exhaustion is
\* returned only with a side found exhausted, and a step that returns it
\* takes no item from a side unless the comparator told it to pass over one.
C39_EqualArmReturns ==
    /\ []((op \in EqualArmOps /\ status = "none") =>
            (FoundExhausted(left) \/ FoundExhausted(right)))
    /\ []((op \in EqualArmOps /\ IsSome(fused)) => Unwrap(fused) # "Equal")
    /\ [][(op \in EqualArmOps /\ status' = "some" /\ MatchedElems' # MatchedElems) =>
            /\ Rest(left) # <<>> /\ Rest(right) # <<>>
            /\ cmp'.calls >= 1
            /\ Len(Rest(left')) < Len(Rest(left))
            /\ Len(Rest(right')) < Len(Rest(right))]_vars

C39_Witness ==
    /\ op = "merge_left_outer" /\ status = "none"
    /\ Len(L) = 2 /\ Len(R) = 2
    /\ Cardinality(MatchedElems) = 2

====
